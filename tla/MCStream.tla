------------------------------ MODULE MCStream ------------------------------
EXTENDS Stream

\* One buffer, several, an empty one in between, and no room at all.
Writes == {<<1>>, <<3>>, <<2, 0, 1>>}
Reads  == {[first |-> 0, total |-> 0], [first |-> 1, total |-> 1],
           [first |-> 1, total |-> 2], [first |-> 2, total |-> 2],
           [first |-> 3, total |-> 3]}

\* A buffer sequence that begins with an empty buffer.
LeadingEmpty == {[first |-> 0, total |-> 2]}

=============================================================================
