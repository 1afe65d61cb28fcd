--------------------------- MODULE MCReceiveLoop ---------------------------
EXTENDS ReceiveLoop

CONSTANTS u1, u2

TwoUsers == {u1, u2}

=============================================================================
