----------------------------- MODULE ByteStream -----------------------------
(***************************************************************************)
(* What a connected pair of sockets promises for one direction: a stream   *)
(* of bytes.  The n-th byte the writer has put in is the n-th byte the     *)
(* reader gets, and the reader learns of the end of the stream only after  *)
(* it has got everything.  Bytes are told apart by their number.           *)
(***************************************************************************)
EXTENDS Naturals, Sequences

VARIABLES
    put,    \* how many bytes the stream has taken from the writer
    got,    \* the bytes the reader has been given, in this order
    ended   \* has the reader been told that there are no more?

vars == <<put, got, ended>>

Init ==
    /\ put = 0
    /\ got = <<>>
    /\ ended = FALSE

\* The n bytes that follow the first k.
Bytes(k, n) == [i \in 1..n |-> k + i]

Put ==
    /\ ~ended
    /\ put' \in Nat
    /\ put' > put
    /\ UNCHANGED <<got, ended>>

Get ==
    /\ ~ended
    /\ \E n \in 1..(put - Len(got)) : got' = got \o Bytes(Len(got), n)
    /\ UNCHANGED <<put, ended>>

End ==
    /\ Len(got) = put
    /\ ended' = TRUE
    /\ UNCHANGED <<put, got>>

Next == Put \/ Get \/ End

Spec == Init /\ [][Next]_vars

=============================================================================
