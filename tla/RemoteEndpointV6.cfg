\* remote_endpoint of an IPv6 connection.
SPECIFICATION Spec
CONSTANTS
    Ports <- EdgePorts
    Halves = {0, 1, 2}
    Scopes = {0}
    Nil = Nil
INVARIANTS
    ReportedIsPeer
