---------------------------- MODULE ContextLoop ----------------------------
(***************************************************************************)
(* The contract between a context and the event sources that drive it: the *)
(* multiplexer's receive loop and the ticker.  As long as operations are   *)
(* wanted, the context is registered for the next datagram and the ticker  *)
(* runs; each datagram takes the registration away, and the context renews *)
(* it on its way out of on_read.  Nothing of this survives the             *)
(* multiplexer.                                                            *)
(*                                                                         *)
(* UtpSockets implements the contract from above (want is its op counter   *)
(* being nonzero), ReceiveLoop from below (the registration is a list      *)
(* entry, the ticker a timer and two flags).                               *)
(***************************************************************************)

VARIABLES
    want,     \* _outstanding_op_count > 0
    linked,   \* is the context registered for the next datagram?
    ticking,  \* ticker_type::_running
    frame,    \* the function of the context that is on the stack
    mux       \* lifetime of the udp_multiplexer_impl

vars == <<want, linked, ticking, frame, mux>>

Init ==
    /\ want = FALSE
    /\ linked = FALSE
    /\ ticking = FALSE
    /\ frame = "idle"
    /\ mux = "none"

\* The last shared_ptr to the multiplexer may go away with any call that
\* returns to the event loop.
MayRelease ==
    \/ mux' = mux
    \/ mux = "alive" /\ frame' = "idle" /\ mux' = "expired"

Create ==
    /\ mux = "none"
    /\ mux' = "alive"
    /\ UNCHANGED <<want, linked, ticking, frame>>

StartOps ==
    /\ ~want
    /\ want' = TRUE
    /\ IF mux = "alive" THEN linked' = TRUE /\ ticking' = TRUE
                        ELSE UNCHANGED <<linked, ticking>>
    /\ frame' = frame
    /\ MayRelease

StopOps ==
    /\ want
    /\ want' = FALSE
    /\ ticking' = FALSE
    /\ IF mux = "alive" THEN linked' = FALSE ELSE UNCHANGED linked
    /\ frame' = frame
    /\ MayRelease

Datagram ==
    /\ mux = "alive"
    /\ frame = "idle"
    /\ linked
    /\ linked' = FALSE
    /\ frame' = "on_read"
    /\ UNCHANGED <<want, ticking, mux>>

EndOnRead ==
    /\ frame = "on_read"
    /\ frame' = "idle"
    /\ IF want THEN linked' = TRUE /\ ticking' = TRUE
               ELSE UNCHANGED <<linked, ticking>>
    /\ want' = want
    /\ MayRelease

Tick ==
    /\ mux = "alive"
    /\ frame = "idle"
    /\ ticking
    /\ frame' = "tick"
    /\ UNCHANGED <<want, linked, ticking, mux>>

EndTick ==
    /\ frame = "tick"
    /\ frame' = "idle"
    /\ UNCHANGED <<want, linked, ticking, mux>>

Expire ==
    /\ mux = "alive"
    /\ frame = "idle"
    /\ mux' = "expired"
    /\ UNCHANGED <<want, linked, ticking, frame>>

Destroyed ==
    /\ mux = "expired"
    /\ mux' = "dead"
    /\ linked' = FALSE
    /\ ticking' = FALSE
    /\ UNCHANGED <<want, frame>>

Next ==
    \/ Create \/ StartOps \/ StopOps \/ Datagram \/ EndOnRead
    \/ Tick \/ EndTick \/ Expire \/ Destroyed

Spec == Init /\ [][Next]_vars

=============================================================================
