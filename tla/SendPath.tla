------------------------------ MODULE SendPath ------------------------------
(***************************************************************************)
(* udp_multiplexer::async_send_to, from the client's call to its handler.  *)
(*                                                                         *)
(* A send goes through three pieces of state that do not have to be about  *)
(* the same send: tx_handler and tx_buffers of the udp_multiplexer's       *)
(* state, and the operation of the UDP socket, whose completion first      *)
(* calls the on_send_to signal, with client code in its slots, and then    *)
(* whatever handler tx_handler holds by then.  Closing answers the handler *)
(* at once and leaves the operation in flight.                             *)
(*                                                                         *)
(* The signal itself is the subject of Signal; here a call of it is a      *)
(* stretch of client code between two lines of the completion.             *)
(***************************************************************************)
EXTENDS Naturals, FiniteSets

CONSTANTS
    Users,       \* udp_multiplexer objects bound to one udp_multiplexer_impl
    States,      \* their states
    Sends,       \* the sends of the client
    Nil,
    OneAtATime   \* does the client wait for a send before the next one?

ASSUME NilAssumption   == Nil \notin Users \cup States \cup Sends
ASSUME ClientAssumption == OneAtATime \in BOOLEAN

VARIABLES
    state,     \* udp_multiplexer::_state
    attached,  \* the states whose impl is set
    txh,       \* state::tx_handler, as the send it belongs to
    txbuf,     \* state::tx_buffers, as the send they belong to
    flight,    \* operations of the UDP socket: the state each send keeps
    orphans,   \* those of a udp_multiplexer_impl that has been destroyed
    emitting,  \* the send whose completion is calling the signal, and its result
    queue,     \* results that were posted to io_context
    answered   \* results the client was called with

vars == <<state, attached, txh, txbuf, flight, orphans, emitting, queue, answered>>

\* Results: of the send itself, of another one, an error, or an abort.
Results == [of : Sends \cup {Nil}, code : {"none", "ok", "error", "aborted"}]

None    == [of |-> Nil, code |-> "none"]
Aborted == [of |-> Nil, code |-> "aborted"]

TypeOK ==
    /\ state \in [Users -> States \cup {Nil}]
    /\ attached \subseteq States
    /\ txh \in [States -> Sends \cup {Nil}]
    /\ txbuf \in [States -> Sends \cup {Nil}]
    /\ flight \in [Sends -> States \cup {Nil}]
    /\ emitting \in Results
    /\ orphans \subseteq Sends
    /\ queue \in [Sends -> Results]
    /\ answered \in [Sends -> Results]

Init ==
    /\ state = [u \in Users |-> Nil]
    /\ attached = {}
    /\ txh = [s \in States |-> Nil]
    /\ txbuf = [s \in States |-> Nil]
    /\ flight = [x \in Sends |-> Nil]
    /\ emitting = None
    /\ orphans = {}
    /\ queue = [x \in Sends |-> None]
    /\ answered = [x \in Sends |-> None]

-----------------------------------------------------------------------------

InFlight == {x \in Sends : flight[x] # Nil}

\* The udp_multiplexer_impl is destroyed when no state refers to it and no
\* completion has it locked; its operations are then cancelled.
Release == orphans' = IF attached' = {} /\ emitting' = None
                      THEN {x \in Sends : flight'[x] # Nil} ELSE orphans \cap {x \in Sends : flight'[x] # Nil}

Posted  == {x \in Sends : queue[x] # None}
Told    == {x \in Sends : answered[x] # None}
Stored  == {txh[s] : s \in States} \ {Nil}
Started == InFlight \cup Stored \cup Posted \cup Told

\* A state is freed with the last reference, of an object or an operation.
FreeState(s) ==
    /\ \A u \in Users : state[u] # s
    /\ \A x \in Sends : flight[x] # s

Bind(u, s) ==
    /\ state[u] = Nil
    /\ FreeState(s)
    /\ state' = [state EXCEPT ![u] = s]
    /\ attached' = attached \cup {s}
    /\ txh' = [txh EXCEPT ![s] = Nil]
    /\ txbuf' = [txbuf EXCEPT ![s] = Nil]
    /\ UNCHANGED <<flight, orphans, emitting, queue, answered>>

\* Mutant: the handler is posted and kept.
Post_kept(s, r) ==
    /\ queue' = IF txh[s] = Nil THEN queue ELSE [queue EXCEPT ![txh[s]] = r]
    /\ UNCHANGED txh

\* handler::post of tx_handler, if it is set, with result r.
Post(s, r) ==
    /\ queue' = IF txh[s] = Nil THEN queue ELSE [queue EXCEPT ![txh[s]] = r]
    /\ txh' = [txh EXCEPT ![s] = Nil]

\* Mutant: the handler of a send in flight is forgotten.
Close_silent(u) ==
    /\ state[u] # Nil
    /\ txh' = [txh EXCEPT ![state[u]] = Nil]
    /\ state' = [state EXCEPT ![u] = Nil]
    /\ attached' = attached \ {state[u]}
    /\ UNCHANGED <<txbuf, flight, emitting, queue, answered>>
    /\ Release

\* Mutant: the object goes on to use the state.
Close_reused(u) ==
    /\ state[u] # Nil
    /\ Post(state[u], Aborted)
    /\ UNCHANGED <<state, attached, txbuf, flight, orphans, emitting, answered>>

\* close: the handler is answered, the operation goes on.
Close(u) ==
    /\ state[u] # Nil
    /\ Post(state[u], Aborted)
    /\ state' = [state EXCEPT ![u] = Nil]
    /\ attached' = attached \ {state[u]}
    /\ UNCHANGED <<txbuf, flight, emitting, answered>>
    /\ Release

\* The sends this client still waits for on u.
Pending(u) == {txh[state[u]]} \ {Nil}

\* async_send_to and do_send: tx_buffers and tx_handler are overwritten.
Send(u, x) ==
    LET s == state[u]
    IN  /\ s # Nil
        /\ x \notin Started
        /\ OneAtATime => Pending(u) = {}
        /\ txbuf' = [txbuf EXCEPT ![s] = x]
        /\ txh' = [txh EXCEPT ![s] = x]
        /\ flight' = [flight EXCEPT ![x] = s]
        /\ UNCHANGED <<state, attached, orphans, emitting, queue, answered>>

\* The UDP socket completes a send, with its own result or because somebody
\* cancelled the socket.  While the multiplexer is alive its signal is
\* called, with the buffers and the destination the lambda refers to.
Complete(x, code) ==
    /\ x \in InFlight \ orphans
    /\ emitting = None
    /\ emitting' = [of |-> x, code |-> code]
    /\ UNCHANGED <<state, attached, txh, txbuf, flight, orphans, queue, answered>>

\* h(ec, bytes_transferred), after the signal: the lambda of do_send posts
\* the handler it finds in its state, and its reference to the state ends.
EndSignal ==
    /\ emitting # None
    /\ Post(flight[emitting.of], emitting)
    /\ flight' = [flight EXCEPT ![emitting.of] = Nil]
    /\ emitting' = None
    /\ UNCHANGED <<state, attached, txbuf, answered>>
    /\ Release

\* The multiplexer is gone: no signal, and operation_aborted.
CompleteOrphan(x) ==
    /\ x \in orphans
    /\ emitting = None
    /\ Post(flight[x], Aborted)
    /\ flight' = [flight EXCEPT ![x] = Nil]
    /\ orphans' = orphans \ {x}
    /\ UNCHANGED <<state, attached, txbuf, emitting, answered>>

RunHandler(x) ==
    /\ x \in Posted
    /\ emitting = None
    /\ answered' = [answered EXCEPT ![x] = queue[x]]
    /\ queue' = [queue EXCEPT ![x] = None]
    /\ UNCHANGED <<state, attached, txh, txbuf, flight, orphans, emitting>>

ClientNext ==
    \/ \E u \in Users : Close(u) \/ \E s \in States : Bind(u, s)
    \/ \E u \in Users, x \in Sends : Send(u, x)

LoopNext ==
    \/ EndSignal
    \/ \E x \in Sends :
          \/ CompleteOrphan(x) \/ RunHandler(x)
          \/ \E code \in {"ok", "error", "aborted"} : Complete(x, code)

Next == ClientNext \/ LoopNext

Spec == Init /\ [][Next]_vars

-----------------------------------------------------------------------------
(***************************************************************************)
(* Properties.                                                             *)
(***************************************************************************)

\* No send is forgotten and none is answered twice: a send that was started
\* has its handler stored, posted or called, and only one of the three.
SendAnsweredOnce ==
    OneAtATime =>
        /\ InFlight \subseteq Stored \cup Posted \cup Told
        /\ Stored \cap Posted = {} /\ Posted \cap Told = {} /\ Stored \cap Told = {}

\* A send is answered with its own result, unless it was closed under the
\* operation, also when slots of the signal close, bind and send while the
\* completion is on its way.
OwnResult ==
    OneAtATime =>
        \A x \in Sends : queue[x].of \in {Nil, x} /\ answered[x].of \in {Nil, x}

\* The slots of on_send_to are told of the datagram that was sent: the
\* buffers of its state have not been replaced, and the client, whose memory
\* the lambda refers to for the destination, has not been answered yet; only
\* a client that closes during a send is answered before.
SignalTruthful ==
    OneAtATime /\ emitting # None =>
        /\ txbuf[flight[emitting.of]] = emitting.of
        /\ {queue[emitting.of], answered[emitting.of]} \subseteq {None, Aborted}

-----------------------------------------------------------------------------
(***************************************************************************)
(* Liveness.  The UDP socket completes what it was given, and io_context   *)
(* runs what is posted to it.                                              *)
(***************************************************************************)

Fairness ==
    /\ WF_vars(EndSignal)
    /\ \A x \in Sends :
          /\ WF_vars(RunHandler(x))
          /\ WF_vars(CompleteOrphan(x) \/ \E code \in {"ok", "error", "aborted"} : Complete(x, code))

FairSpec == Spec /\ Fairness

\* Every send of a client that makes one at a time is answered.
SendCompletes ==
    \A x \in Sends : (x \in Stored \cup Posted) ~> x \in Told

=============================================================================
