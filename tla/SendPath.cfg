\* Two udp_multiplexers that send, close and bind again.
SPECIFICATION FairSpec
CONSTANTS
    Users = {u1, u2}
    States = {s1, s2, s3}
    Sends = {x1, x2}
    Nil = nil
    OneAtATime = TRUE
INVARIANTS
    SendAnsweredOnce
    OwnResult
    SignalTruthful
PROPERTIES
    SendCompletes
