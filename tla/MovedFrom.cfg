\* A build with assertions.
SPECIFICATION Spec
CONSTANTS
    Socks = {f1, f2}
    Umuxes = {u1}
    Impls = {i1, i2}
    States = {s1, s2, s3}
    Muxes = {m1, m2}
    Services = {c1}
    Endpoints = {e1, e2}
    AnyPort = any
    Nil = nil
    Asserts = TRUE
    OwnPorts = TRUE
    AssignOver = FALSE
    CrossAssign = FALSE
SYMMETRY Symmetry
INVARIANTS
    MovedFromUnused
CHECK_DEADLOCK FALSE
