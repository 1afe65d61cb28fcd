\* Assignments to a bound udp_multiplexer.
SPECIFICATION Spec
CONSTANTS
    Socks = {f1, f2}
    Umuxes = {u1, u2}
    Impls = {i1, i2}
    States = {s1, s2, s3}
    Muxes = {m1, m2}
    Services = {c1}
    Endpoints = {e1, e2}
    AnyPort = any
    Nil = nil
    Asserts = FALSE
    OwnPorts = TRUE
    AssignOver = TRUE
    CrossAssign = FALSE
SYMMETRY Symmetry
INVARIANTS
    HeldByClient
CHECK_DEADLOCK FALSE
