\* Both families; scope ids that fit into 16 bits and one that does not.
SPECIFICATION Spec
CONSTANTS
    Ports <- EdgePorts
    Halves = {0, 1, 2}
    Scopes = {0, 1, 65536}
    Nil = Nil
INVARIANTS
    PeerKept
