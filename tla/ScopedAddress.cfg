\* Link-local addresses.
SPECIFICATION Spec
CONSTANTS
    Ports <- EdgePorts
    Halves = {0, 1, 2}
    Scopes = {0, 2}
    Nil = Nil
INVARIANTS
    RoundTrip
