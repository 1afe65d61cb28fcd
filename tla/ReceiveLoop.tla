---------------------------- MODULE ReceiveLoop ----------------------------
(***************************************************************************)
(* The receive loop of udp_multiplexer_impl, the udp_multiplexer objects   *)
(* that share it with the context, and the ticker.                         *)
(*                                                                         *)
(* The loop keeps at most one async_receive_from in flight, and only while *)
(* somebody is in its list.  It is stopped with cancel(), which Asio       *)
(* answers later, through the completion of the cancelled operation: by    *)
(* then there may be somebody in the list again.  A datagram is offered to *)
(* everybody who was in the list when it came; the context's handler is    *)
(* the only one that calls into client code, which may register, close and *)
(* send while the loop is going through its local list, and drop the last  *)
(* reference while it, or the tick, is on the stack.                       *)
(*                                                                         *)
(* The socket layer is reduced to whether the op counter is nonzero (want) *)
(* and whether a socket object holds the multiplexer (held): its side of   *)
(* the contract is ContextLoop.  The lists are sets: who comes first in    *)
(* them is left open.                                                      *)
(***************************************************************************)

CONSTANTS
    Users,  \* the udp_multiplexer::state objects (a rebind makes a new one)
    Ctx     \* the context's recv_entry

ASSUME CtxAssumption == Ctx \notin Users

Entries == Users \cup {Ctx}

VARIABLES
    list,      \* _recv_handlers
    flushing,  \* the local list of flush_handlers
    receiving, \* _is_receiving
    io,        \* the async_receive_from operation
    frame,     \* the function that is on the stack
    open,      \* states a udp_multiplexer object refers to
    bound,     \* states whose recv_entry.handler is set
    rx,        \* states whose rx_handler is set
    tx,        \* states whose tx_handler is set
    sends,     \* the async_send_to operation of each state
    want,      \* context::_outstanding_op_count > 0
    held,      \* does a socket object hold the multiplexer?
    running,   \* ticker_type::_running
    timer,     \* the async_wait operation; _outstanding unless it is "off"
    mux,       \* lifetime of the udp_multiplexer_impl
    fault      \* what went wrong: a failed assertion, a use after free

loopVars   == <<list, flushing, receiving, io>>
userVars   == <<open, bound, rx, tx>>
tickerVars == <<running, timer>>
vars == <<loopVars, frame, userVars, sends, want, held, tickerVars, mux, fault>>

TypeOK ==
    /\ list \subseteq Entries
    /\ flushing \subseteq Entries
    /\ receiving \in BOOLEAN
    /\ io \in {"none", "pending", "ready", "canceled"}
    /\ frame \in {"idle", "flush", "on_read", "tick"}
    /\ open \subseteq Users
    /\ bound \subseteq Users
    /\ rx \subseteq Users
    /\ tx \subseteq Users
    /\ sends \in [Users -> {"none", "pending", "done"}]
    /\ want \in BOOLEAN
    /\ held \in BOOLEAN
    /\ running \in BOOLEAN
    /\ timer \in {"off", "waiting", "fired"}
    /\ mux \in {"none", "alive", "expired", "dead"}
    /\ fault \in {"none", "recv_handler", "freed_in_tick"}

Init ==
    /\ list = {}
    /\ flushing = {}
    /\ receiving = FALSE
    /\ io = "none"
    /\ frame = "idle"
    /\ open = {}
    /\ bound = {}
    /\ rx = {}
    /\ tx = {}
    /\ sends = [u \in Users |-> "none"]
    /\ want = FALSE
    /\ held = FALSE
    /\ running = FALSE
    /\ timer = "off"
    /\ mux = "none"
    /\ fault = "none"

-----------------------------------------------------------------------------

Live == fault = "none" /\ mux # "expired"

\* Client code runs from the event loop, inside context::on_read, and inside
\* the tick: every packet libutp sends goes through send_to, which calls the
\* on_send_to slots of the client.
UserMay == Live /\ frame \in {"idle", "on_read", "tick"}

LoopMay == Live /\ frame = "idle"

Linked == list \cup flushing

\* A udp_multiplexer::state is kept by its udp_multiplexer object, by the
\* std::bind in its own recv_entry.handler, and by the lambda of a send.
StateLive(u) == u \in open \cup bound \/ sends[u] # "none"

\* The shared_ptrs to the udp_multiplexer_impl: one in each open state, one
\* in each socket object, one on the stack while the loop is flushing, and
\* one in callback_sendto while a slot runs.
Held == open # {} \/ held

ReleaseImpl ==
    mux' = IF mux = "alive" /\ ~Held' /\ frame' = "idle"
           THEN "expired" ELSE mux

-----------------------------------------------------------------------------
(***************************************************************************)
(* The list of entries.                                                    *)
(***************************************************************************)

\* Mutant: starts to receive whether or not it does already.
register_recv_handler_again(e) ==
    /\ list' = list \cup {e}
    /\ receiving' = TRUE
    /\ io' = "pending"
    /\ flushing' = flushing

register_recv_handler(e) ==
    /\ list' = list \cup {e}
    /\ receiving' = TRUE
    /\ io' = IF receiving THEN io ELSE "pending"
    /\ flushing' = flushing

\* Mutant: the pending receive is left alone.
on_recv_entry_unlinked_not(rest, sn) ==
    /\ io' = io
    /\ sends' = sn

\* Nobody is left to receive for: cancel everything on the UDP socket, the
\* sends of the clients included.  rest: what remains of the list; sn: the
\* sends in flight.
on_recv_entry_unlinked(rest, sn) ==
    IF receiving /\ rest = {}
    THEN /\ io' = IF io = "pending" THEN "canceled" ELSE io
         /\ sends' = [u \in Users |-> IF sn[u] = "pending" THEN "done" ELSE sn[u]]
    ELSE /\ io' = io
         /\ sends' = sn

\* recv_entry::unlink and ~recv_entry.
unlink(e, sn) ==
    /\ list' = list \ {e}
    /\ flushing' = flushing \ {e}
    /\ IF e \in Linked THEN on_recv_entry_unlinked(list \ {e}, sn)
                       ELSE io' = io /\ sends' = sn
    /\ receiving' = receiving

-----------------------------------------------------------------------------
(***************************************************************************)
(* The ticker.                                                             *)
(***************************************************************************)

ticker_start ==
    /\ running' = TRUE
    /\ timer' = IF ~running /\ timer = "off" THEN "waiting" ELSE timer

\* Mutant: the wait is not cancelled.
ticker_stop_uncanceled ==
    /\ running' = FALSE
    /\ timer' = timer

\* cancel() queues the handler of a wait that has not expired yet.
ticker_stop ==
    /\ running' = FALSE
    /\ timer' = IF running /\ timer = "waiting" THEN "fired" ELSE timer

TimerExpires ==
    /\ fault = "none"
    /\ timer = "waiting"
    /\ timer' = "fired"
    /\ UNCHANGED <<loopVars, frame, userVars, sends, want, held, running, mux, fault>>

\* Mutant: ticks even after it was stopped.
OnTimer_stopped ==
    /\ LoopMay
    /\ timer = "fired"
    /\ timer' = "off"
    /\ running' = (running /\ mux = "alive")
    /\ frame' = IF mux = "alive" THEN "tick" ELSE "idle"
    /\ UNCHANGED <<loopVars, userVars, sends, want, held, mux, fault>>

\* The handler of async_wait.  It does not look at its error code: a wait
\* that was cancelled and wanted again meanwhile counts as a tick.
OnTimer ==
    /\ LoopMay
    /\ timer = "fired"
    /\ timer' = "off"
    /\ running' = (running /\ mux = "alive")
    /\ frame' = IF running' THEN "tick" ELSE "idle"
    /\ UNCHANGED <<loopVars, userVars, sends, want, held, mux, fault>>

\* Mutant: the next wait is not started.
EndTick_last ==
    /\ Live
    /\ frame = "tick"
    /\ frame' = "idle"
    /\ UNCHANGED <<loopVars, userVars, sends, want, held, tickerVars, mux, fault>>

\* utp_check_timeouts returns.  The ticker has locked its weak_ptr without
\* keeping the result, so a slot that has dropped the last reference had the
\* multiplexer destroyed, and libutp's context with it, under the feet of
\* utp_check_timeouts.  (The slots of one tick count as one piece of code.)
EndTick ==
    /\ Live
    /\ frame = "tick"
    /\ IF Held
       THEN /\ frame' = "idle"
            /\ timer' = IF running /\ timer = "off" THEN "waiting" ELSE timer
            /\ UNCHANGED fault
       ELSE /\ fault' = "freed_in_tick"
            /\ UNCHANGED <<frame, timer>>
    /\ UNCHANGED <<loopVars, userVars, sends, want, held, running, mux>>

-----------------------------------------------------------------------------
(***************************************************************************)
(* The context: what the socket layer does to it, from client code or from *)
(* a callback of libutp.                                                   *)
(***************************************************************************)

\* context::start_receiving.
start_receiving ==
    /\ ticker_start
    /\ IF Ctx \in Linked THEN UNCHANGED loopVars ELSE register_recv_handler(Ctx)

StartOps ==
    /\ Live /\ frame # "flush"
    /\ mux = "alive"
    /\ held
    /\ ~want
    /\ want' = TRUE
    /\ start_receiving
    /\ UNCHANGED <<frame, userVars, sends, held, mux, fault>>

\* context::stop_receiving.
StopOps ==
    /\ Live /\ frame # "flush"
    /\ mux = "alive"
    /\ want
    /\ want' = FALSE
    /\ ticker_stop
    /\ unlink(Ctx, sends)
    /\ UNCHANGED <<frame, userVars, held, mux, fault>>

\* Mutant: on_read forgets to register again.
EndOnRead_once ==
    /\ Live
    /\ frame = "on_read"
    /\ frame' = "flush"
    /\ UNCHANGED <<loopVars, userVars, sends, want, held, tickerVars, mux, fault>>

EndOnRead ==
    /\ Live
    /\ frame = "on_read"
    /\ frame' = "flush"
    /\ IF want THEN start_receiving ELSE UNCHANGED <<loopVars, tickerVars>>
    /\ UNCHANGED <<userVars, sends, want, held, mux, fault>>

BindSocket ==
    /\ UserMay
    /\ mux \in {"none", "alive"}
    /\ ~held
    /\ held' = TRUE
    /\ mux' = "alive"
    /\ UNCHANGED <<loopVars, frame, userVars, sends, want, tickerVars, fault>>

ReleaseSockets ==
    /\ UserMay
    /\ held
    /\ held' = FALSE
    /\ UNCHANGED <<loopVars, frame, userVars, sends, want, tickerVars, fault>>
    /\ ReleaseImpl

-----------------------------------------------------------------------------
(***************************************************************************)
(* udp_multiplexer.                                                        *)
(***************************************************************************)

\* bind and the copy constructor: a fresh state.
Bind(u) ==
    /\ UserMay
    /\ mux \in {"none", "alive"}
    /\ ~StateLive(u)
    /\ open' = open \cup {u}
    /\ bound' = bound \cup {u}
    /\ mux' = "alive"
    /\ UNCHANGED <<loopVars, frame, rx, tx, sends, want, held, tickerVars, fault>>

\* do_receive: one receive at a time, as its assertion asks of the client.
Receive(u) ==
    /\ UserMay
    /\ u \in open \ rx
    /\ rx' = rx \cup {u}
    /\ register_recv_handler(u)
    /\ UNCHANGED <<frame, open, bound, tx, sends, want, held, tickerVars, mux, fault>>

\* do_send, for a client that keeps to one send at a time.
Send(u) ==
    /\ UserMay
    /\ u \in open \ tx
    /\ tx' = tx \cup {u}
    /\ sends' = [sends EXCEPT ![u] = "pending"]
    /\ UNCHANGED <<loopVars, frame, open, bound, rx, want, held, tickerVars, mux, fault>>

\* Mutant: recv_entry.handler is left alone, and with it a cycle of
\* shared_ptrs.
ClearEntry_not(u) == bound

\* recv_entry.handler = nullptr
ClearEntry(u) == bound \ {u}

\* close and ~udp_multiplexer.  The state goes away, and ~recv_entry unlinks
\* it, unless the lambda of a send still refers to it.
Close(u) ==
    /\ UserMay
    /\ u \in open
    /\ open' = open \ {u}
    /\ bound' = ClearEntry(u)
    /\ rx' = rx \ {u}
    /\ tx' = tx \ {u}
    /\ UNCHANGED <<frame, want, held, tickerVars, fault>>
    /\ ReleaseImpl
    /\ IF mux' = "alive" /\ u \notin bound' /\ sends[u] = "none"
       THEN unlink(u, sends)
       ELSE UNCHANGED <<loopVars, sends>>

\* Asio completes the send; its lambda posts tx_handler if close() has not,
\* and gives up its reference to the state.
OnSent(u) ==
    /\ LoopMay
    /\ sends[u] = "done"
    /\ tx' = tx \ {u}
    /\ LET sn == [sends EXCEPT ![u] = "none"]
       IN  IF mux = "alive" /\ u \notin open \cup bound
           THEN unlink(u, sn)
           ELSE sends' = sn /\ UNCHANGED loopVars
    /\ UNCHANGED <<frame, open, bound, rx, want, held, tickerVars, mux, fault>>

-----------------------------------------------------------------------------
(***************************************************************************)
(* The loop.  The kernel side (external): a pending operation becomes      *)
(* ready at any time, and from then on cancel() does not touch it.         *)
(***************************************************************************)

Arrive ==
    /\ fault = "none"
    /\ io = "pending"
    /\ io' = "ready"
    /\ UNCHANGED <<list, flushing, receiving, frame, userVars, sends, want, held,
                   tickerVars, mux, fault>>

Depart(u) ==
    /\ fault = "none"
    /\ sends[u] = "pending"
    /\ sends' = [sends EXCEPT ![u] = "done"]
    /\ UNCHANGED <<loopVars, frame, userVars, want, held, tickerVars, mux, fault>>

\* What the completion of async_receive_from ends with: start again unless
\* the list is empty.
Continue ==
    /\ receiving' = (list # {})
    /\ io' = IF list # {} THEN "pending" ELSE "none"

\* Mutant: a cancelled operation ends the loop.
OnCanceled_ends ==
    /\ LoopMay
    /\ mux = "alive"
    /\ io = "canceled"
    /\ io' = "none"
    /\ receiving' = FALSE
    /\ UNCHANGED <<list, flushing, frame, userVars, sends, want, held, tickerVars, mux, fault>>

\* The operation was cancelled.
OnCanceled ==
    /\ LoopMay
    /\ mux = "alive"
    /\ io = "canceled"
    /\ Continue
    /\ UNCHANGED <<list, flushing, frame, userVars, sends, want, held, tickerVars, mux, fault>>

\* A datagram, or an error: flush_handlers moves the list.
OnReceived ==
    /\ LoopMay
    /\ mux = "alive"
    /\ io = "ready"
    /\ io' = "none"
    /\ frame' = "flush"
    /\ flushing' = list
    /\ list' = {}
    /\ UNCHANGED <<receiving, userVars, sends, want, held, tickerVars, mux, fault>>

\* The context's turn: on_read.
FlushContext ==
    /\ Live
    /\ frame = "flush"
    /\ Ctx \in flushing
    /\ flushing' = flushing \ {Ctx}
    /\ frame' = "on_read"
    /\ UNCHANGED <<list, receiving, io, userVars, sends, want, held, tickerVars, mux, fault>>

\* The turn of a udp_multiplexer: handle_read posts rx_handler, if there is
\* one.  First, assert(e.handler).
FlushUser(u) ==
    /\ Live
    /\ frame = "flush"
    /\ u \in flushing
    /\ flushing' = flushing \ {u}
    /\ IF u \in bound THEN rx' = rx \ {u} /\ UNCHANGED fault
                      ELSE fault' = "recv_handler" /\ UNCHANGED rx
    /\ UNCHANGED <<list, receiving, io, frame, open, bound, tx, sends, want, held,
                   tickerVars, mux>>

EndFlush ==
    /\ Live
    /\ frame = "flush"
    /\ flushing = {}
    /\ frame' = "idle"
    /\ Continue
    /\ UNCHANGED <<list, flushing, userVars, sends, want, held, tickerVars, fault>>
    /\ ReleaseImpl

\* ~udp_multiplexer_impl: context::close stops the ticker, and the UDP
\* socket takes its operations with it.
Destroy ==
    /\ fault = "none"
    /\ mux = "expired"
    /\ mux' = "dead"
    /\ list' = {}
    /\ ticker_stop
    /\ io' = IF io = "pending" THEN "canceled" ELSE io
    /\ sends' = [u \in Users |-> IF sends[u] = "pending" THEN "done" ELSE sends[u]]
    /\ UNCHANGED <<flushing, receiving, frame, userVars, want, held, fault>>

\* The completion of async_receive_from finds nobody behind its weak_ptr.
\* Before it looks it reads _debug through the captured `this`, an object
\* that is destroyed by now.  Whatever that read gives decides only whether a
\* line is logged, so every outcome of it is the same step here.
OnOrphaned ==
    /\ LoopMay
    /\ mux = "dead"
    /\ io \in {"ready", "canceled"}
    /\ io' = "none"
    /\ UNCHANGED <<list, flushing, receiving, frame, userVars, sends, want, held,
                   tickerVars, mux, fault>>

-----------------------------------------------------------------------------

ClientNext ==
    \/ StartOps \/ StopOps \/ BindSocket \/ ReleaseSockets
    \/ \E u \in Users : Bind(u) \/ Receive(u) \/ Send(u) \/ Close(u)

LoopNext ==
    \/ OnCanceled \/ OnReceived \/ OnOrphaned \/ OnTimer
    \/ FlushContext \/ EndOnRead \/ EndFlush \/ EndTick \/ Destroy
    \/ \E u \in Users : FlushUser(u) \/ OnSent(u)

KernelNext == Arrive \/ TimerExpires \/ \E u \in Users : Depart(u)

Next == ClientNext \/ LoopNext \/ KernelNext

Spec == Init /\ [][Next]_vars

-----------------------------------------------------------------------------
(***************************************************************************)
(* Properties.                                                             *)
(***************************************************************************)

\* _is_receiving tells the truth: it is set exactly while one receive
\* operation is in flight or its datagram is being handed out.  Both
\* assertions of start_receiving rest on this, across cancels that are
\* answered late and registrations made from inside the flush.
OneReceive ==
    mux = "alive" => /\ receiving <=> io # "none" \/ frame \in {"flush", "on_read"}
                     /\ frame \in {"flush", "on_read"} => io = "none"

\* No lost wakeup and no idle wait: back in the event loop, a receive
\* operation is under way whenever somebody is in the list, and none keeps
\* io_context::run from returning when nobody is.
ReceivingForSomebody ==
    mux = "alive" /\ frame \in {"idle", "tick"} =>
        /\ list # {} => io # "none"
        /\ list = {} => io # "pending"

\* Whoever waits for a datagram is in a list, and the other way round: no
\* open udp_multiplexer has an rx_handler the loop does not know of, none is
\* offered a datagram it does not want, and nothing of a closed one is left
\* but the entries of states that a send keeps alive.
WaitersLinked ==
    mux = "alive" =>
        /\ \A u \in open : u \in rx <=> u \in Linked
        /\ \A u \in Users : u \in Linked \ open => sends[u] # "none"
        /\ Ctx \in Linked => want
        /\ want /\ frame # "on_read" => Ctx \in Linked

\* The ticker and its timer agree: while it runs a wait is in flight or its
\* handler queued, and once stopped no wait keeps io_context::run from
\* returning, although stop, start and the handler of a cancelled wait meet
\* in any order.
TickerArmed ==
    /\ running /\ frame # "tick" => timer # "off"
    /\ ~running => timer # "waiting"

\* The destruction of the multiplexer leaves nothing behind that
\* io_context::run would wait for, and no client's handler unanswered.
NothingAfterDestroy ==
    mux = "dead" =>
        /\ io # "pending"
        /\ timer # "waiting"
        /\ rx = {} /\ tx = {}
        /\ \A u \in Users : sends[u] # "pending"

\* What the context is promised: see ContextLoop.
Contract == INSTANCE ContextLoop WITH
    linked  <- Ctx \in Linked,
    ticking <- running,
    frame   <- IF frame = "flush" THEN "idle" ELSE frame

\* The list, the cancellations and the timer implement the contract that the
\* context relies on: a registration ends with the next datagram or with the
\* last operation, and in no other way.
ContractKept == Contract!Spec

\* flush_handlers: assert(e.handler).
RecvHandlerSet == fault # "recv_handler"

-----------------------------------------------------------------------------
(***************************************************************************)
(* Liveness: io_context runs what is ready, and datagrams keep coming for  *)
(* whoever keeps a receive pending.                                        *)
(***************************************************************************)

Fairness ==
    /\ SF_vars(OnCanceled) /\ SF_vars(OnReceived) /\ WF_vars(FlushContext)
    /\ WF_vars(EndOnRead) /\ WF_vars(EndFlush) /\ WF_vars(EndTick) /\ WF_vars(Destroy)
    /\ WF_vars(Arrive)
    /\ \A u \in Users : WF_vars(FlushUser(u)) /\ SF_vars(OnSent(u)) /\ WF_vars(Depart(u))

FairSpec == Spec /\ Fairness

\* A receive is answered: by a datagram, or by close().  Neither the cancels
\* that others cause nor the ops of the context can starve it.
ReceiveAnswered ==
    \A u \in Users : u \in rx ~> u \notin rx \/ fault # "none"

\* close() leaves no state behind: once the send is over that kept it, it is
\* freed and its entry is gone.
StateFreed ==
    \A u \in Users : StateLive(u) /\ u \notin open
                        ~> ~StateLive(u) \/ u \in open \/ fault # "none"

=============================================================================
