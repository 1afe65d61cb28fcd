---------------------------- MODULE MCAddresses -----------------------------
EXTENDS Addresses

\* The edges of either byte, and ports whose bytes differ.
EdgePorts == {0, 1, 80, 255, 256, 257, 4660, 65280, 65535}

=============================================================================
