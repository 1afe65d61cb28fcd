\* An abstract_udp_socket that reports the endpoint of another socket.
SPECIFICATION Spec
CONSTANTS
    Socks = {f1, f2}
    Umuxes = {u1, u2}
    Impls = {i1, i2}
    States = {s1, s2}
    Muxes = {m1, m2}
    Services = {c1, c2}
    Endpoints = {e1}
    AnyPort = any
    Nil = nil
    Asserts = FALSE
    OwnPorts = FALSE
    AssignOver = FALSE
    CrossAssign = FALSE
SYMMETRY Symmetry
INVARIANTS
    Shareable
CHECK_DEADLOCK FALSE
