---------------------------- MODULE MCUtpSockets ----------------------------
EXTENDS UtpSockets, TLC

CONSTANTS s1, s2

OneSocket  == {s1}
TwoSockets == {s1, s2}

AllOps     == Kinds
AcceptSend == {"accept", "send"}
StreamSide == {"connect", "send", "recv"}
ServerSide == {"accept", "recv"}

SocketSymmetry == Permutations(TwoSockets)

=============================================================================
