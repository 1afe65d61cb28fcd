----------------------------- MODULE UtpSockets -----------------------------
(***************************************************************************)
(* The socket layer of asio-utp: the asio_utp::socket facades, the         *)
(* socket_impls behind them, the context they share and its op counter,    *)
(* and the part of udp_multiplexer_impl that decides its own lifetime.     *)
(*                                                                         *)
(* Everything runs on one thread, so what interleaves is not instructions  *)
(* but calls: the client calls the facade, io_context runs a posted        *)
(* completion handler, the UDP receive loop enters context::on_read, the   *)
(* ticker enters utp_check_timeouts, and inside those two libutp calls     *)
(* back, once per connection event or packet sent.  Each such call is one  *)
(* action.  The slots a client connects with on_send_to are called for     *)
(* every packet, also for those that utp_connect, utp_write and utp_close  *)
(* send: what slots may do in the middle of these three calls is the       *)
(* subject of Reentry, here they are atomic.                               *)
(*                                                                         *)
(* libutp and Boost.Asio are external: a libutp connection is a small      *)
(* state machine (utp), the peer is a free choice among the callbacks it   *)
(* can cause, and io_context is a set of posted handlers, because each     *)
(* handler carries its own executor and no order between them is promised. *)
(***************************************************************************)
EXTENDS Naturals, FiniteSets, Sequences

CONSTANTS
    Sockets,      \* the socket objects a client creates
    ClientOps,    \* the asynchronous operations this client uses
    MaxRx,        \* bound on the chunks kept in one _rx_buffer_queue
    MaxRearm,     \* bound on the writes that are re-armed by on_writable
    SendMayFail,  \* may send_to fail with something else than would_block?
    Careful       \* does the client keep to the rules of a careful client?

Kinds == {"connect", "accept", "send", "recv"}

ASSUME SocketsAssumption == IsFiniteSet(Sockets)
ASSUME ClientAssumption  == ClientOps \subseteq Kinds
ASSUME BoundsAssumption  == MaxRx \in Nat /\ MaxRearm \in Nat
ASSUME FlagsAssumption   == SendMayFail \in BOOLEAN /\ Careful \in BOOLEAN

\* One operation of each kind may be outstanding per socket: the handler
\* members _connect_handler, _accept_handler, _send_handler, _recv_handler.
Ops == Sockets \X Kinds

\* What a completion handler can be called with: success,
\* connection_reset, operation_aborted, connection_aborted, bad_descriptor
\* and the error of a failed send_to.
Codes == {"ok", "reset", "aborted", "conn_aborted", "bad", "io"}

VARIABLES
    slot,       \* ops whose handler member of the socket_impl is set
    queue,      \* code each op was posted to io_context with, or "none"
    after,      \* ops whose handler still owns an exec_after closure
    waiting,    \* ops the client has started and not been called back for
    closed,     \* _closed
    eof,        \* _got_eof
    decClose,   \* _decrement_close
    utp,        \* _utp_socket, as the state of the libutp connection
    facade,     \* what the socket object still refers to
    rxq,        \* number of chunks in _rx_buffer_queue
    accepting,  \* context::_accepting_sockets
    ops,        \* context::_outstanding_op_count
    rearmed,    \* history: times on_writable has re-armed a write
    linked,     \* is context::_recv_handle in the multiplexer's list?
    ticking,    \* ticker_type::_running
    mux,        \* lifetime of the udp_multiplexer_impl
    ext,        \* does a udp_multiplexer object hold the multiplexer?
    frame,      \* the library function that is on the stack
    running,    \* the completion handler that is on the stack
    fault       \* the assertion that failed, or "none"

handlerVars == <<slot, queue, after, waiting>>
implVars    == <<closed, eof, decClose, utp, rxq, accepting>>
ownerVars   == <<facade, mux, ext>>
ctxVars     == <<ops, rearmed, linked, ticking>>
stackVars   == <<frame, running>>
vars == <<handlerVars, implVars, ownerVars, ctxVars, stackVars, fault>>

-----------------------------------------------------------------------------
(***************************************************************************)
(* Types and the initial state.                                            *)
(***************************************************************************)

\* "failed": refused, reset or timed out; libutp keeps the connection, makes
\* no further callbacks for it, and waits for utp_close.
UtpStates == {"none", "syn_sent", "syn_recv", "connected", "failed", "closing"}

\* "bound": _socket_impl and _multiplexer set.  "detached": the socket_impl
\* has cleared its owner's _socket_impl, _multiplexer is still set.
\* "released": both null again.
FacadeStates == {"unbound", "bound", "detached", "released"}

\* "expired": ~udp_multiplexer_impl is on the stack, weak_ptrs to it are null.
MuxStates == {"none", "alive", "expired", "dead"}

\* The assertions of socket_impl that can fail, the use of an empty handler
\* in post_op, and the destruction of a libutp context that is in use.
Labels == {"accept_handler", "accept_utp", "accept_hook", "connect_utp",
           "closed_handlers", "empty_post", "freed_in_tick"}

TypeOK ==
    /\ slot \subseteq Ops
    /\ queue \in [Ops -> Codes \cup {"none"}]
    /\ after \subseteq Ops
    /\ waiting \subseteq Ops
    /\ closed \subseteq Sockets
    /\ eof \subseteq Sockets
    /\ decClose \subseteq Sockets
    /\ utp \in [Sockets -> UtpStates]
    /\ facade \in [Sockets -> FacadeStates]
    /\ rxq \in [Sockets -> 0..MaxRx]
    /\ accepting \in Seq(Sockets)
    /\ ops \in Nat
    /\ rearmed \in 0..MaxRearm
    /\ linked \in BOOLEAN
    /\ ticking \in BOOLEAN
    /\ mux \in MuxStates
    /\ ext \in BOOLEAN
    /\ frame \in {"idle", "on_read", "tick"}
    /\ running \in {"none", "plain", "counted"}
    /\ fault \in Labels \cup {"none"}

Init ==
    /\ slot = {}
    /\ queue = [o \in Ops |-> "none"]
    /\ after = {}
    /\ waiting = {}
    /\ closed = {}
    /\ eof = {}
    /\ decClose = {}
    /\ utp = [s \in Sockets |-> "none"]
    /\ facade = [s \in Sockets |-> "unbound"]
    /\ rxq = [s \in Sockets |-> 0]
    /\ accepting = <<>>
    /\ ops = 0
    /\ rearmed = 0
    /\ linked = FALSE
    /\ ticking = FALSE
    /\ mux = "none"
    /\ ext = FALSE
    /\ frame = "idle"
    /\ running = "none"
    /\ fault = "none"

-----------------------------------------------------------------------------
(***************************************************************************)
(* Who is running.  Client code runs at the top level, in a handler that   *)
(* io_context calls, in the accept handler libutp's callback dispatches    *)
(* inline, and in the on_send_to slots that callback_sendto reaches with   *)
(* every packet; libutp calls back only from inside on_read and the tick.  *)
(***************************************************************************)

UserMay == /\ fault = "none"
           /\ mux # "expired"
           /\ frame = "idle" \/ running # "none"

LibMay == /\ fault = "none"
          /\ mux # "expired"
          /\ frame # "idle"
          /\ running = "none"

LoopMay == /\ fault = "none"
           /\ mux # "expired"
           /\ frame = "idle"
           /\ running = "none"

\* A send may fail at any time, with an error that is neither would_block
\* nor bad_descriptor.
SendErrors == IF SendMayFail THEN {TRUE, FALSE} ELSE {FALSE}

\* The process stops at a failed assertion, and nothing can be said of it
\* after undefined behaviour: nothing else changes, and no action is enabled
\* any more.
AssertFails(label) ==
    /\ fault' = label
    /\ UNCHANGED <<handlerVars, implVars, ownerVars, ctxVars, stackVars>>

-----------------------------------------------------------------------------
(***************************************************************************)
(* context: the op counter and what hangs on it.                           *)
(***************************************************************************)

\* start_receiving and stop_receiving both go through weak_ptrs to the
\* multiplexer: once it has expired neither links nor unlinks, and only
\* stopping still reaches the ticker.
start_receiving ==
    IF mux = "alive" THEN linked' = TRUE /\ ticking' = TRUE
                     ELSE UNCHANGED <<linked, ticking>>

\* Mutant: the entry stays in the list.
stop_receiving_ticker ==
    /\ ticking' = FALSE
    /\ linked' = linked

stop_receiving ==
    /\ ticking' = FALSE
    /\ linked' = IF mux = "alive" THEN FALSE ELSE linked

increment_outstanding_ops(n) ==
    /\ ops' = ops + n
    /\ IF ops = 0 /\ n > 0 THEN start_receiving
                           ELSE UNCHANGED <<linked, ticking>>

\* Mutant: stops receiving one op too early.
decrement_outstanding_ops_early ==
    /\ ops' = ops - 1
    /\ IF ops = 2 THEN stop_receiving
                  ELSE UNCHANGED <<linked, ticking>>

decrement_outstanding_ops ==
    /\ ops' = ops - 1
    /\ IF ops = 1 THEN stop_receiving
                  ELSE UNCHANGED <<linked, ticking>>

\* Who holds a shared_ptr to the multiplexer: objects of the client.
Held == ext \/ \E s \in Sockets : facade[s] \in {"bound", "detached"}

\* Mutant: the connections keep the multiplexer alive as well, and it is not
\* released when they end.
ReleaseMultiplexer_pinned ==
    mux' = IF mux = "alive" /\ frame' = "idle" /\ ~Held'
              /\ \A s \in Sockets : utp'[s] = "none"
           THEN "expired" ELSE mux

\* The last shared_ptr to the multiplexer is gone.  context::on_read holds
\* one for as long as it runs, callback_sendto while the slots run.
ReleaseMultiplexer ==
    mux' = IF mux = "alive" /\ frame' = "idle" /\ ~Held' THEN "expired" ELSE mux

-----------------------------------------------------------------------------
(***************************************************************************)
(* Handlers.  setup_op stores a handler and gives it an exec_after closure *)
(* that will decrement the op counter once the handler has returned; what  *)
(* is left to each caller below is where the handler goes next.            *)
(***************************************************************************)

\* The client may start op o: one op of each kind is outstanding at a time.
MayStart(o) ==
    /\ UserMay
    /\ o[2] \in ClientOps
    /\ o \notin waiting

setup_op(o) ==
    /\ after' = after \cup {o}
    /\ waiting' = waiting \cup {o}

\* Mutant: the handler is posted but not moved out of its member.
post_op_copy(o, ec) ==
    /\ slot' = slot
    /\ queue' = [queue EXCEPT ![o] = ec]

post_op(o, ec) ==
    /\ slot' = slot \ {o}
    /\ queue' = [queue EXCEPT ![o] = ec]

\* io_context calls the handler of o: f(ec), with after() still to come.
Enter(o) ==
    /\ running' = IF o \in after THEN "counted" ELSE "plain"
    /\ after' = after \ {o}
    /\ waiting' = waiting \ {o}

RunHandler(o) ==
    /\ LoopMay
    /\ queue[o] # "none"
    /\ queue' = [queue EXCEPT ![o] = "none"]
    /\ Enter(o)
    /\ UNCHANGED <<slot, implVars, ownerVars, ctxVars, frame, fault>>

\* Mutant: the closure is lost on its way through post.
EndHandler_never ==
    /\ UserMay
    /\ running # "none"
    /\ running' = "none"
    /\ UNCHANGED <<handlerVars, implVars, ownerVars, ctxVars, frame, fault>>

\* The client's function returns, and after() runs if there is one.  The
\* ticker does not keep the multiplexer, so a slot of the tick that has
\* dropped the last reference leaves it to callback_sendto to destroy the
\* multiplexer, and libutp's context with it, inside utp_check_timeouts.
EndHandler ==
    /\ UserMay
    /\ running # "none"
    /\ IF frame = "tick" /\ ~Held THEN AssertFails("freed_in_tick")
       ELSE /\ running' = "none"
            /\ IF running = "counted" THEN decrement_outstanding_ops
                                      ELSE UNCHANGED <<ops, linked, ticking>>
            /\ UNCHANGED <<handlerVars, implVars, ownerVars, rearmed, frame, fault>>

-----------------------------------------------------------------------------
(***************************************************************************)
(* close_with_error, for every socket of the set C (none of them closed):  *)
(* hands all stored handlers the code ec[s], and shuts down the libutp     *)
(* connection unless the peer has already done so.  sl, u and f are the    *)
(* handlers, connections and facades at the time of the call, and n the    *)
(* number of ops the calling function has set up itself.                   *)
(***************************************************************************)

\* Mutant: the send handler is forgotten.
abort_handlers_not_send(C, ec, sl) ==
    LET aborted == {o \in sl : o[1] \in C /\ o[2] # "send"}
    IN  /\ closed' = closed \cup C
        /\ slot' = sl \ aborted
        /\ queue' = [o \in Ops |-> IF o \in aborted THEN ec[o[1]] ELSE queue[o]]

abort_handlers(C, ec, sl) ==
    LET aborted == {o \in sl : o[1] \in C}
    IN  /\ closed' = closed \cup C
        /\ slot' = sl \ aborted
        /\ queue' = [o \in Ops |-> IF o \in aborted THEN ec[o[1]] ELSE queue[o]]

\* Mutant: the owner keeps its pointer to the closing implementation.
Detach_not(f, shut) == f

\* _owner->_socket_impl = nullptr
Detach(f, shut) ==
    [s \in Sockets |-> IF s \in shut /\ f[s] = "bound" THEN "detached" ELSE f[s]]

close_with_error(C, ec, sl, u, f, n) ==
    LET shut == {s \in C : u[s] # "none" /\ s \notin eof}
    IN  /\ abort_handlers(C, ec, sl)
        /\ utp' = [s \in Sockets |-> IF s \in shut THEN "closing" ELSE u[s]]
        /\ facade' = Detach(f, shut)
        /\ decClose' = decClose \cup shut
        /\ increment_outstanding_ops(n + Cardinality(shut))

Code(ec) == [s \in Sockets |-> ec]

\* Called on a closed socket, close_with_error asserts that it has no
\* handlers.
ClosedHandlers(sl) == \E o \in sl : o[1] \in closed

\* callback_sendto closes every socket of the context when the send failed.
Registered == {s \in Sockets : facade[s] # "unbound"}

callback_sendto(err, sl, u, f, n) ==
    close_with_error(IF err THEN Registered \ closed ELSE {}, Code("io"), sl, u, f, n)

-----------------------------------------------------------------------------
(***************************************************************************)
(* Calls of the client.                                                    *)
(***************************************************************************)

\* socket::bind, to the multiplexer of a local endpoint; the service
\* creates it for the first caller.
Bind(s) ==
    /\ UserMay
    /\ facade[s] = "unbound"
    /\ mux \in {"none", "alive"}
    /\ facade' = [facade EXCEPT ![s] = "bound"]
    /\ mux' = "alive"
    /\ UNCHANGED <<handlerVars, implVars, ext, ctxVars, stackVars, fault>>

BindMultiplexer ==
    /\ UserMay
    /\ ~ext
    /\ mux \in {"none", "alive"}
    /\ ext' = TRUE
    /\ mux' = "alive"
    /\ UNCHANGED <<handlerVars, implVars, facade, ctxVars, stackVars, fault>>

\* A careful client does not let go of its last object in the tick.
CarefulRelease == Careful /\ frame = "tick" => Held'

CloseMultiplexer ==
    /\ UserMay
    /\ ext
    /\ ext' = FALSE
    /\ UNCHANGED <<handlerVars, implVars, facade, ctxVars, stackVars, fault>>
    /\ CarefulRelease
    /\ ReleaseMultiplexer

\* The early returns of socket::do_* and socket_impl::do_write and do_read.
Rejected(o) ==
    \/ facade[o[1]] # "bound"
    \/ o[2] = "send" /\ utp[o[1]] = "none"
    \/ o[2] = "recv" /\ o[1] \in closed

Reject(o) ==
    /\ MayStart(o)
    /\ Rejected(o)
    /\ waiting' = waiting \cup {o}
    /\ queue' = [queue EXCEPT ![o] = "bad"]
    /\ UNCHANGED <<slot, after, implVars, ownerVars, ctxVars, stackVars, fault>>

\* What a careful client checks before it starts a connect or an accept: the
\* socket is_open() and has not been used for either.
CarefulStart(s) ==
    Careful => /\ s \notin closed
               /\ utp[s] = "none"
               /\ <<s, "accept">> \notin slot

\* do_connect.  err: utp_connect sends the SYN, and the send fails.
Connect(s, err) ==
    LET o == <<s, "connect">>
    IN  /\ MayStart(o)
        /\ facade[s] = "bound"
        /\ CarefulStart(s)
        /\ IF utp[s] # "none" THEN AssertFails("connect_utp")
           ELSE IF err /\ ClosedHandlers(slot \cup {o})
           THEN AssertFails("closed_handlers")
           ELSE /\ setup_op(o)
                /\ callback_sendto(err, slot \cup {o}, [utp EXCEPT ![s] = "syn_sent"],
                                   facade, 1)
                /\ UNCHANGED <<eof, rxq, accepting, mux, ext, rearmed, stackVars, fault>>

\* do_accept: queue the socket, whose hook must be free, and set up the op.
Accept(s) ==
    LET o == <<s, "accept">>
    IN  /\ MayStart(o)
        /\ facade[s] = "bound"
        /\ CarefulStart(s)
        /\ IF \E i \in DOMAIN accepting : accepting[i] = s
           THEN AssertFails("accept_hook")
           ELSE /\ accepting' = Append(accepting, s)
                /\ setup_op(o)
                /\ slot' = slot \cup {o}
                /\ increment_outstanding_ops(1)
                /\ UNCHANGED <<queue, closed, eof, decClose, utp, rxq, ownerVars, rearmed,
                               stackVars, fault>>

\* do_write, with its handler just received or moved out of the slot.
\* done: libutp took all the bytes.  err: one of the packets could not be
\* sent, so callback_sendto closed this socket under do_write's feet, and
\* the handler that do_write would post next is gone already.
\* r counts the call when it is on_writable's: setup_op then increments the
\* op counter once more and replaces the closure that would have undone the
\* previous increment.
do_write(s, done, err, r) ==
    LET o == <<s, "send">>
    IN  IF err /\ ClosedHandlers(slot \cup {o}) THEN AssertFails("closed_handlers")
        ELSE IF err /\ done THEN AssertFails("empty_post")
        ELSE /\ setup_op(o)
             /\ IF done
                THEN /\ post_op(o, "ok")
                     /\ increment_outstanding_ops(1)
                     /\ UNCHANGED <<closed, decClose, utp, facade>>
                ELSE callback_sendto(err, slot \cup {o}, utp, facade, 1)
             /\ rearmed' = rearmed + r
             /\ UNCHANGED <<eof, rxq, accepting, mux, ext, stackVars, fault>>

Write(s, done, err) ==
    /\ MayStart(<<s, "send">>)
    /\ ~Rejected(<<s, "send">>)
    /\ Careful => s \notin closed
    /\ err => utp[s] = "connected"
    /\ do_write(s, done, err, 0)

\* Mutant: a received EOF hides the data that came before it.
HasData_before_eof(s) == rxq[s] > 0 /\ s \notin eof

\* Mutant: off by one, the last chunk is not seen.
HasData_but_last(s) == rxq[s] > 1

HasData(s) == rxq[s] > 0

\* do_read with a non-empty buffer; left is what remains of the queue.
Read(s, left) ==
    LET o == <<s, "recv">>
    IN  /\ MayStart(o)
        /\ ~Rejected(o)
        /\ left <= rxq[s]
        /\ setup_op(o)
        /\ rxq' = [rxq EXCEPT ![s] = left]
        /\ IF HasData(s)
           THEN /\ post_op(o, "ok")
                /\ increment_outstanding_ops(1)
                /\ UNCHANGED <<closed, decClose, utp, facade>>
           ELSE close_with_error(IF s \in eof THEN {s} ELSE {}, Code("reset"),
                                 slot \cup {o}, utp, facade, 1)
        /\ UNCHANGED <<eof, accepting, mux, ext, rearmed, stackVars, fault>>

\* do_read with an empty buffer: completes without being counted.
ReadNothing(s) ==
    LET o == <<s, "recv">>
    IN  /\ MayStart(o)
        /\ ~Rejected(o)
        /\ waiting' = waiting \cup {o}
        /\ queue' = [queue EXCEPT ![o] = "ok"]
        /\ UNCHANGED <<slot, after, implVars, ownerVars, ctxVars, stackVars, fault>>

\* socket::close and ~socket.  err: utp_close sends a FIN, and the send
\* fails while this socket is closing.
CloseSocket(s, err) ==
    LET others == IF err THEN Registered \ closed ELSE {}
        ec     == [Code("io") EXCEPT ![s] = "aborted"]
    IN  /\ UserMay
        /\ facade[s] = "bound"
        /\ Careful => <<s, "accept">> \notin slot
        /\ err => s \notin closed /\ utp[s] = "connected" /\ s \notin eof
        /\ IF err /\ ClosedHandlers(slot)
           THEN AssertFails("closed_handlers")
           ELSE /\ close_with_error(({s} \ closed) \cup others, ec, slot, utp,
                                    [facade EXCEPT ![s] = "released"], 0)
                /\ UNCHANGED <<after, waiting, eof, rxq, accepting, ext, rearmed,
                               stackVars, fault>>
                /\ CarefulRelease
                /\ ReleaseMultiplexer

\* ~socket once the implementation is detached: close() returns early, and
\* the destructor of the member _multiplexer lets go of the multiplexer.
DestroySocket(s) ==
    /\ UserMay
    /\ facade[s] = "detached"
    /\ facade' = [facade EXCEPT ![s] = "released"]
    /\ UNCHANGED <<handlerVars, implVars, ext, ctxVars, stackVars, fault>>
    /\ CarefulRelease
    /\ ReleaseMultiplexer

-----------------------------------------------------------------------------
(***************************************************************************)
(* The event loop: a UDP datagram for the context, and the ticker.         *)
(***************************************************************************)

\* flush_handlers pops the context's entry and calls context::on_read.
Datagram ==
    /\ LoopMay
    /\ mux = "alive"
    /\ linked
    /\ linked' = FALSE
    /\ frame' = "on_read"
    /\ UNCHANGED <<handlerVars, implVars, ownerVars, ops, rearmed, ticking, running, fault>>

\* Mutant: the context does not register its entry again.
EndOnRead_unlinked ==
    /\ LibMay
    /\ frame = "on_read"
    /\ frame' = "idle"
    /\ UNCHANGED <<handlerVars, implVars, facade, ext, ctxVars, running, fault>>
    /\ ReleaseMultiplexer

EndOnRead ==
    /\ LibMay
    /\ frame = "on_read"
    /\ frame' = "idle"
    /\ IF ops > 0 THEN start_receiving ELSE UNCHANGED <<linked, ticking>>
    /\ UNCHANGED <<handlerVars, implVars, facade, ext, ops, rearmed, running, fault>>
    /\ ReleaseMultiplexer

Tick ==
    /\ LoopMay
    /\ mux = "alive"
    /\ ticking
    /\ frame' = "tick"
    /\ UNCHANGED <<handlerVars, implVars, ownerVars, ctxVars, running, fault>>

EndTick ==
    /\ LibMay
    /\ frame = "tick"
    /\ frame' = "idle"
    /\ UNCHANGED <<handlerVars, implVars, ownerVars, ctxVars, running, fault>>

-----------------------------------------------------------------------------
(***************************************************************************)
(* Callbacks of libutp.                                                    *)
(***************************************************************************)

OnConnect(s) ==
    /\ LibMay
    /\ frame = "on_read"
    /\ utp[s] = "syn_sent"
    /\ utp' = [utp EXCEPT ![s] = "connected"]
    /\ post_op(<<s, "connect">>, "ok")
    /\ UNCHANGED <<after, waiting, closed, eof, decClose, rxq, accepting, ownerVars,
                   ctxVars, stackVars, fault>>

\* A chunk of payload.  left: the part of it that stays in the queue.
OnReceive(s, left) ==
    LET o == <<s, "recv">>
    IN  /\ LibMay
        /\ frame = "on_read"
        /\ utp[s] \in {"syn_recv", "connected"}
        /\ s \notin eof
        /\ o \notin slot => left = 1
        /\ rxq[s] + left <= MaxRx
        /\ utp' = [utp EXCEPT ![s] = "connected"]
        /\ rxq' = [rxq EXCEPT ![s] = @ + left]
        /\ IF o \in slot THEN post_op(o, "ok") ELSE UNCHANGED <<slot, queue>>
        /\ UNCHANGED <<after, waiting, closed, eof, decClose, accepting, ownerVars,
                       ctxVars, stackVars, fault>>

OnEof(s) ==
    LET o == <<s, "recv">>
    IN  /\ LibMay
        /\ frame = "on_read"
        /\ utp[s] \in {"syn_recv", "connected", "closing"}
        /\ s \notin eof
        /\ eof' = eof \cup {s}
        /\ IF o \in slot THEN post_op(o, "reset") ELSE UNCHANGED <<slot, queue>>
        /\ UNCHANGED <<after, waiting, closed, decClose, utp, rxq, accepting, ownerVars,
                       ctxVars, stackVars, fault>>

OnWritable(s, done, err) ==
    /\ LibMay
    /\ utp[s] = "connected"
    /\ <<s, "send">> \in slot
    /\ rearmed < MaxRearm
    /\ do_write(s, done, err, 1)

\* callback_on_error does nothing: whoever waits for the connection goes on
\* waiting until the socket is closed.
OnError(s) ==
    /\ LibMay
    /\ utp[s] \in {"syn_sent", "syn_recv", "connected"}
    /\ utp' = [utp EXCEPT ![s] = "failed"]
    /\ UNCHANGED <<handlerVars, closed, eof, decClose, rxq, accepting, ownerVars,
                   ctxVars, stackVars, fault>>

\* UTP_STATE_DESTROYING: the connection has ended, or utp_destroy is
\* clearing the context of a multiplexer that is being destroyed.
OnDestroy(s) ==
    /\ fault = "none"
    /\ \/ LibMay /\ utp[s] = "closing"
       \/ mux = "expired" /\ utp[s] # "none"
    /\ IF s \in closed /\ \E o \in slot : o[1] = s
       THEN AssertFails("closed_handlers")
       ELSE /\ abort_handlers({s} \ closed, Code("conn_aborted"), slot)
            /\ utp' = [utp EXCEPT ![s] = "none"]
            /\ IF s \in decClose THEN decrement_outstanding_ops
                                 ELSE UNCHANGED <<ops, linked, ticking>>
            /\ decClose' = decClose \ {s}
            /\ UNCHANGED <<after, waiting, eof, rxq, accepting, ownerVars, rearmed,
                           stackVars, fault>>

\* Mutant: the accepting socket stays in the queue.
PopAccepting_not == accepting

PopAccepting == Tail(accepting)

\* callback_on_accept pops the oldest accepting socket; on_accept gives it
\* the connection and dispatches its handler, which runs at once when its
\* executor allows (inline) and is queued otherwise.
OnAccept(inline) ==
    LET s == Head(accepting)
        o == <<s, "accept">>
    IN  /\ LibMay
        /\ frame = "on_read"
        /\ accepting # <<>>
        /\ IF utp[s] # "none" THEN AssertFails("accept_utp")
           ELSE IF o \notin slot THEN AssertFails("accept_handler")
           ELSE /\ accepting' = PopAccepting
                /\ utp' = [utp EXCEPT ![s] = "syn_recv"]
                /\ IF inline
                   THEN /\ slot' = slot \ {o}
                        /\ Enter(o)
                        /\ UNCHANGED queue
                   ELSE /\ post_op(o, "ok")
                        /\ UNCHANGED <<after, waiting, running>>
                /\ UNCHANGED <<closed, eof, decClose, rxq, ownerVars, ctxVars, frame, fault>>

\* libutp sends a packet of its own (an ack, a retransmission), and send_to
\* calls the client's slots.
OnSendTo ==
    /\ LibMay
    /\ running' = "plain"
    /\ UNCHANGED <<handlerVars, implVars, ownerVars, ctxVars, frame, fault>>

\* Such a packet cannot be sent: the slots are called all the same, before
\* callback_sendto closes the sockets.
SendFails ==
    /\ LibMay
    /\ SendMayFail
    /\ IF ClosedHandlers(slot)
       THEN AssertFails("closed_handlers")
       ELSE /\ callback_sendto(TRUE, slot, utp, facade, 0)
            /\ UNCHANGED <<after, waiting, eof, rxq, accepting, mux, ext, rearmed,
                           stackVars, fault>>

\* The rest of context::close and of ~udp_multiplexer_impl.
EndDestroy ==
    /\ fault = "none"
    /\ mux = "expired"
    /\ \A s \in Sockets : utp[s] = "none"
    /\ mux' = "dead"
    /\ ticking' = FALSE
    /\ linked' = FALSE
    /\ UNCHANGED <<handlerVars, implVars, facade, ext, ops, rearmed, stackVars, fault>>

-----------------------------------------------------------------------------

UserNext ==
    \/ BindMultiplexer \/ CloseMultiplexer
    \/ \E o \in Ops : Reject(o)
    \/ \E s \in Sockets :
          \/ Bind(s) \/ Accept(s) \/ ReadNothing(s) \/ DestroySocket(s)
          \/ \E left \in 0..MaxRx : Read(s, left)
          \/ \E err \in SendErrors :
                \/ Connect(s, err) \/ CloseSocket(s, err)
                \/ \E done \in BOOLEAN : Write(s, done, err)

LoopNext ==
    \/ EndHandler \/ Datagram \/ EndOnRead \/ Tick \/ EndTick \/ EndDestroy
    \/ \E o \in Ops : RunHandler(o)

LibNext ==
    \/ OnSendTo \/ SendFails
    \/ \E inline \in BOOLEAN : OnAccept(inline)
    \/ \E s \in Sockets :
          \/ OnConnect(s) \/ OnEof(s) \/ OnError(s) \/ OnDestroy(s)
          \/ \E left \in {0, 1} : OnReceive(s, left)
          \/ \E done \in BOOLEAN, err \in SendErrors : OnWritable(s, done, err)

Next == UserNext \/ LoopNext \/ LibNext

Spec == Init /\ [][Next]_vars

-----------------------------------------------------------------------------
(***************************************************************************)
(* Properties.                                                             *)
(***************************************************************************)

Queued == {o \in Ops : queue[o] # "none"}

\* No completion is lost and none happens twice: every op the client waits
\* for is either stored in exactly one handler member or posted to
\* io_context, never both, through every post, dispatch, close, re-arming
\* and destruction.
CompletionOnce ==
    /\ waiting = slot \cup Queued
    /\ slot \cap Queued = {}

\* _outstanding_op_count is the number of closures that will decrement it,
\* plus the closes libutp still owes, plus one for every time on_writable
\* re-armed a write.  In particular it never wraps below zero, and the
\* re-armed writes are the only increments that are never undone.
OpCountExact ==
    ops = Cardinality(after) + Cardinality(decClose) + rearmed
            + (IF running = "counted" THEN 1 ELSE 0)

\* No lost wakeup: between callbacks the context is in the multiplexer's
\* receive list and the ticker runs exactly when an op is outstanding.
\* Inside on_read, where the entry has been popped, an outstanding op keeps
\* the ticker alive, and without one nothing is armed.
ReceivingWhileOps ==
    mux = "alive" =>
        /\ ticking <=> ops > 0
        /\ linked => ops > 0
        /\ frame # "on_read" /\ ops > 0 => linked

\* A reader learns of the end of the stream only after it was given every
\* chunk: connection_reset is delivered to a read only after EOF and with an
\* empty _rx_buffer_queue, although EOF, data and reads come in any order.
EofAfterData ==
    \A s \in Sockets : queue[<<s, "recv">>] = "reset" => s \in eof /\ rxq[s] = 0

\* The assertions the code makes about itself and that do hold: on_receive's
\* empty queue, close_with_error's fresh _decrement_close, and the connect
\* handler on_connect posts without looking.
AssertedStates ==
    /\ \A s \in Sockets : <<s, "recv">> \in slot => rxq[s] = 0
    /\ \A s \in Sockets : utp[s] = "syn_sent" => <<s, "connect">> \in slot
    /\ decClose \subseteq closed

\* The op a close adds to the counter lives exactly as long as libutp's
\* closing handshake, and by then no socket object can reach the connection:
\* nobody writes to a utp_socket after utp_close.
CloseTracked ==
    \A s \in Sockets :
        /\ s \in decClose <=> utp[s] = "closing"
        /\ facade[s] = "bound" => utp[s] # "closing"

\* What the context relies on, and what it has to keep to itself: see
\* ContextLoop.
Contract == INSTANCE ContextLoop WITH want <- ops > 0

\* Whatever the sockets of a context do, by way of its op counter, to its
\* registration, its ticker and the multiplexer's lifetime is a step of the
\* contract that the receive loop implements.
ContractKept == Contract!Spec

\* A completion that is queued keeps its code: neither a later close, nor
\* EOF, nor the destruction of the multiplexer rewrites or drops it before
\* it is run.
CompletionFinal ==
    [][\A o \in Ops : queue[o] # "none" => queue'[o] \in {queue[o], "none"}]_queue

-----------------------------------------------------------------------------
(***************************************************************************)
(* A careful client never closes a socket that is accepting, writes only   *)
(* while is_open(), uses a socket for one connect or accept (CarefulStart) *)
(* and lets go of its last object anywhere but in the tick                 *)
(* (CarefulRelease).  Its slots may call this layer from on_read and the   *)
(* tick, but not from inside a connect, write or close (see Reentry).      *)
(***************************************************************************)

\* A careful client's handlers all come back: once close_with_error has run,
\* however it was reached (close, ~socket, a failed send, EOF seen by a
\* read), the socket_impl keeps no handler.
ClosedKeepsNothing ==
    Careful => \A o \in slot : o[1] \notin closed

\* A socket in _accepting_sockets that still waits for its connection.
AcceptLive(s) == <<s, "accept">> \in slot /\ utp[s] = "none"

\* A careful client meets no failing assertion of socket_impl, no empty
\* handler and no dead socket in the accept queue, unless a send fails: then
\* callback_sendto closes its sockets in the middle of what they do, and the
\* next connection may find one of them in the accept queue, or a write its
\* handler gone.  Nothing else goes wrong even then.
CarefulClientSafe ==
    Careful =>
        /\ \/ fault = "none"
           \/ SendMayFail /\ fault = "accept_handler" /\ Head(accepting) \in closed
           \/ SendMayFail /\ fault = "empty_post"
        /\ \A i \in DOMAIN accepting :
              AcceptLive(accepting[i]) \/ (SendMayFail /\ accepting[i] \in closed)

-----------------------------------------------------------------------------
(***************************************************************************)
(* What the repository says of itself, and the code does not keep to.      *)
(***************************************************************************)

\* on_accept: assert(_accept_handler).
AcceptHandlerSet == fault # "accept_handler"

\* close_with_error, on a closed socket: assert(!_send_handler), and the
\* same for the other three.
ClosedSocketIdle == fault # "closed_handlers"

\* A write that has begun completes through its handler.
WriteHandlerSet == fault # "empty_post"

\* "When there are no async actions waiting to be completed, this shouldn't
\* block": with no op outstanding, no close in progress and nothing on the
\* stack, the context keeps nothing armed that io_context would wait for.
IdleWhenNoOps ==
    waiting = {} /\ decClose = {} /\ LoopMay => ~linked /\ ~ticking

-----------------------------------------------------------------------------
(***************************************************************************)
(* Liveness.  io_context runs what is posted to it and what is ready in    *)
(* turn; handlers, slots and callbacks return, on_read and the tick after  *)
(* finitely many of them; and libutp ends a closing connection, at the     *)
(* latest by timeout, if it keeps being called.                            *)
(***************************************************************************)

Fairness ==
    /\ WF_vars(EndHandler) /\ SF_vars(EndOnRead) /\ SF_vars(EndTick) /\ WF_vars(EndDestroy)
    /\ SF_vars(Tick)
    /\ \A o \in Ops : SF_vars(RunHandler(o))
    /\ \A s \in Sockets : SF_vars(OnDestroy(s))

FairSpec == Spec /\ Fairness

\* A closing connection is not forgotten: the op counter keeps the ticker
\* running until libutp has reported the end of it, even when the client has
\* dropped every object meanwhile.
CloseCompletes ==
    \A s \in Sockets : s \in decClose ~> s \notin decClose

\* Once a socket object has been closed or destroyed, each op that was started
\* on it is answered.  ("detached" is what a failed send makes of an object;
\* where sends do not fail, only the other half says something.)
AbandonedOpsComplete ==
    \A o \in Ops :
        (o \in waiting /\ facade[o[1]] \in {"detached", "released"}) ~> o \notin waiting

\* When client code that runs inside on_read has let go of every object, the
\* multiplexer goes on until on_read is done with it, and is then destroyed
\* with its context, and nothing is left armed that would keep
\* io_context::run from returning.  (Inside the tick, see EndHandler.)
MultiplexerFreed ==
    (mux = "alive" /\ frame = "on_read" /\ ~Held)
        ~> (Held \/ (mux = "dead" /\ ~linked /\ ~ticking))

=============================================================================
