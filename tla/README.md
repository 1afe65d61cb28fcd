# asio-utp: a TLA+ model, its checks and its proofs

asio-utp wraps libutp (the uTP protocol, one C library, single threaded) in
Boost.Asio sockets.  Several uTP sockets and several raw-UDP users share one UDP
port.  Everything runs on one `io_context` thread, so there are no data races;
what goes wrong in such code is the *order of calls*: a client closes from
inside a callback, a cancelled operation answers late, a failed send closes
sockets that are in the middle of a call.  Those orders are what the modules here
enumerate.

## 1. Inventory

| component | state | operations | talks to |
|---|---|---|---|
| `socket` (socket.cpp) | `_socket_impl`, `_multiplexer` | bind, async_connect/accept/write_some/read_some, close, move, destructor | owns a `socket_impl`, holds the multiplexer alive |
| `socket_impl` (socket_impl.cpp) | four handler members, `_utp_socket`, `_closed`, `_got_eof`, `_decrement_close`, `_rx_buffer_queue`, `_accept_hook` | do_connect/accept/write/read, close_with_error; callbacks on_connect/receive/accept/writable/eof/destroy | counts its operations in the context, calls libutp |
| `context` (context.cpp) | `_outstanding_op_count`, `_recv_handle`, `_accepting_sockets`, `_registered_sockets`, ticker | increment/decrement, start/stop_receiving, on_read, callback_*, close | is in the multiplexer's list while the count is nonzero; dispatches libutp callbacks to sockets |
| `ticker_type` (context.cpp) | `_running`, `_outstanding`, a timer | start, stop, the wait handler | calls utp_check_timeouts |
| `handler` (detail/handler.hpp) | the function, an `after` closure | post, dispatch, exec_after | io_context |
| `udp_multiplexer_impl` | `_recv_handlers`, `_is_receiving`, the UDP socket | register_recv_handler, unlink, start_receiving, flush_handlers, send_to, async_send_to | calls every list entry for each datagram |
| `udp_multiplexer` (udp_multiplexer.cpp) | a shared `state`: entry, rx and tx handlers | bind, copy, async_receive_from, async_send_to, close | an entry in the same list |
| `service` (service.hpp) | endpoint -> weak multiplexer, one map per `io_context` | maybe_create, erase | asked by every bind, told by the destructor of a multiplexer |
| `Signal` (detail/signal.hpp) | an intrusive list of connections, each with its slot | connect, move, call, unlinking by destruction | called by the multiplexer for every datagram sent |
| `util` (util.hpp) | - | to_sockaddr, to_endpoint | between Asio endpoints and libutp |
| ids, logging | - | - | - |
| libutp, Boost.Asio | external | | modelled from how `src/` uses them |

Hard behaviours, all listed in `PROJECT.json` under `hazards` with their line: the
many ways into `close_with_error`; libutp calling back inside a call
(`utp_write`, `utp_close`, `utp_connect` may close the caller); the op counter on
which receiving, ticking and the end of `io_context::run` depend; an entry popped
before its handler runs; cancels answered late; a list walked while its entries
come and go; client code (slots of `on_send_to`) called for every packet, also in
the middle of `do_connect`, `do_write` and `close_with_error`; objects kept alive by
the closures of operations in flight; bytes cut
at one place by the sender and at another by the reader; plain pointers to objects
that move; a weak registry.

What makes each component correct: every handler is called once, with a code that
is final; the counter is exact; the context is registered exactly while it is
needed; EOF comes after data; closing ends, counted, and out of everybody's reach;
one receive in flight, for somebody; a ticker that neither stalls nor lingers;
nothing left behind by destruction; the bytes that come out are the bytes that went
in; back pointers and registry entries lead to living objects; a signal reaches
everybody once; a packet goes to the endpoint that was named.

## 2. Modules

- **`UtpSockets`** - sockets, socket_impls, the context's counter and queue, the
  lifetime of the multiplexer.  One action per call of the client (`Bind`,
  `Connect`, `Accept`, `Write`, `Read`, `ReadNothing`, `Reject` for the early
  returns, `CloseSocket`, `DestroySocket`, `BindMultiplexer`, `CloseMultiplexer`),
  per callback of libutp (`OnConnect`, `OnReceive`, `OnEof`, `OnWritable`,
  `OnDestroy`, `OnError`, `OnAccept`, `OnSendTo`, `SendFails`) and per step of the event loop
  (`RunHandler`/`EndHandler`, `Datagram`/`EndOnRead`, `Tick`/`EndTick`,
  `EndDestroy`).  An operation of a socket is a pair `<<socket, kind>>`; `slot`,
  `queue`, `after`, `waiting` say where its handler is.  `frame` and `running` are
  the stack: client code runs from the event loop, in an accept handler that
  `on_accept` dispatches inline, and in the slots that `callback_sendto` reaches from
  `on_read` and the tick (`OnSendTo`); libutp runs only inside `on_read` and the tick.
  An operation is guarded by what the code looks at and by nothing else, except
  where `Careful` says so (`CarefulStart`, `CarefulRelease`).  A failed assertion, an
  empty handler or the destruction of libutp inside the tick sets `fault`, and
  nothing happens after it.  `do_connect`, `do_write` and `close_with_error` are one
  step each, with a failed send as an outcome.
- **`Reentry`** - the same three functions taken apart: each is a frame on `stack`
  with a beginning and an end (`Write`/`EndWrite`, `Connect`/`EndConnect`,
  `Close`/`EndSocketClose`, and the close by a failed send, `EndSlotFailed`/`EndAbort`),
  and every packet sent in between (`SendTo`) runs slots, in which the client may
  call the same socket again, and may fail.  The window of `close_with_error` between
  `utp_close` and `_decrement_close` is a state here.  One socket, no accept, no data.
- **`ReceiveLoop`** - `udp_multiplexer_impl`'s loop, the `udp_multiplexer` objects
  and the ticker.  `list` and `flushing` are `_recv_handlers` and the local list of
  `flush_handlers`; `io`, `sends` and `timer` are Asio operations that complete in
  a step of their own, cancelled or not.
- **`ContextLoop`** - the contract between the two: as long as operations are
  wanted the context is registered and the ticker runs, a datagram consumes the
  registration, `on_read` renews it, nothing survives the multiplexer.
  `UtpSockets` is the context's side of it, `ReceiveLoop` implements it with the
  list and the timer; each states `ContractKept` through its own `INSTANCE`.
- **`Stream`** - the bytes of one direction of a connection: `do_write` one call of
  `utp_write` at a time (`UtpWrite`, `WriteDone`, `OnWritable`), libutp as a
  reliable pipe with a send window (`full`) that takes nothing from a writer which has
  accepted and not yet received anything (`ready`, `PeerData`; src/README.md:50), and
  the reader's `on_receive`,
  `on_eof` and `do_read`, whose copy and removal loops are taken buffer by buffer
  (`CopyChunk`, `DrainChunk`).  A byte is its number in the stream.
- **`ByteStream`** - the promise: bytes put in are got in their order, each once, and
  the end is told after the last.  `Stream` states `IsByteStream`, a refinement in
  which *put* are the bytes libutp has taken.
- **`Ownership`** - who refers to whom: socket and udp_multiplexer objects that are
  bound, moved, copied, assigned, closed and destroyed in any order; socket_impls
  and their plain `_owner`; multiplexers, alive while something leads to them; the
  endpoint maps of the services.  Destruction is part of the action that drops the
  last reference (`Release`), as in the code.  Four flags say what the client does and
  how the program is built: `AssignOver`, `CrossAssign`, `OwnPorts` (an
  abstract_udp_socket does not report the endpoint of another socket, which the code
  never checks) and `Asserts`.
- **`SendPath`** - `udp_multiplexer::async_send_to` from the call to the handler:
  `tx_handler` and `tx_buffers` of the state, the operation of the UDP socket, and
  the completion with the signal's slots in its middle (`Complete`, `EndSignal`).
- **`Signal`** - the intrusive list of connections and calls that walk it while their
  slots change it (`Emit`, `Return`, and everything else in between).  A running call
  remembers, as history, how often it has called each slot and which slots have been
  connected since it began.
- **`Addresses`** - util.hpp's conversions as operators with their widths, and the
  state of a connection that passes through them.
- **`UtpSockets_proof`**, **`UtpClients_proof`**, **`ReceiveLoop_proof`**,
  **`Stream_proof`**, **`Ownership_proof`**, **`Signal_proof`**, **`SendPath_proof`**,
  **`Addresses_proof`** - theorems, each module about the one it is named after;
  `UtpClients_proof` continues `UtpSockets_proof`.
- **`MCUtpSockets`**, **`MCReceiveLoop`**, **`MCStream`**, **`MCOwnership`**,
  **`MCAddresses`** - instances for TLC.

The modules meet in shared operations: `close_with_error` is bookkeeping in
`UtpSockets`, two halves with client code in between in `Reentry`, a flag in `Stream`
and a detached owner in `Ownership`; a completed send is one step in `ReceiveLoop` and three in `SendPath`; a call of the signal is a
stretch of client code in `SendPath` and a walk in `Signal`.

Abstractions.  Payload is a number of chunks; a partial read leaves any number of
them.  Whether libutp takes all of a write, whether a send fails, and which
callback comes next are choices.  Posted handlers form a set, because each has its
own executor.  In `ReceiveLoop` the lists are sets, and the socket layer is two
Booleans, `want` (count nonzero) and `held` (a socket refers to the multiplexer).
libutp is a connection with the states none, syn_sent, syn_recv, connected,
failed (`callback_on_error` was called, which tells nobody), closing: it connects once, reports EOF once, is writable only when connected, and
is destroyed when closing ends or when `utp_destroy` runs.  Definitions named
`X_something` after a definition `X`, marked "Mutant", are the deliberately wrong
variants that show each property can fail; no specification uses them.

## 3. Runs

| run | instance | shows |
|---|---|---|
| `one_socket` | 1 socket, all operations, slots, failing sends, any client, MaxRx 2, MaxRearm 2 | handlers, counter, registration, EOF order, closes, contract |
| `shared_context` | 2 sockets of a careful client, accept and write, slots, failing sends | one socket's failed send closes the other mid-operation and no handler stays behind; a failed send is the only way to a failing assertion, and only at the accept queue or in a write; any number of sockets is the subject of the theorems |
| `liveness` | 1 socket of a careful client, connect/write/read, slots, sends succeed | closes end, operations of closed sockets are answered, a multiplexer dropped inside `on_read` goes away |
| `reentry` | 1 socket, slots and failing sends in the middle of every call, up to 6 frames deep, careful clients and others | handlers and counter exact inside every call; the window of `close_with_error`; what a careful client's slots may do |
| `receive_loop` | 2 udp_multiplexers and the context, fair | list, cancels, ticker, destruction, contract; receives are answered, states are freed |
| `stream` | 5 bytes, writes of one and of several buffers, reads smaller and larger than a chunk, a writer that has connected or accepted, fair | `Stream` implements `ByteStream`; queue, write accounting, no lost wakeup; writes end that came in time and whose reader stays, reads with something to deliver end |
| `ownership` | 2 sockets, 2 udp_multiplexers, 2 multiplexers, 2 endpoints and port 0, 2 `io_context`s with assignments between them, abstract sockets with ports of their own | `_owner`, registry, sharing of ports, no leak |
| `signal` | 2 signals, 4 connections, 3 slots, 3 nested calls | lists, every slot called, none twice |
| `send_path` | 2 udp_multiplexers, 3 states, 2 sends, fair | one answer each, the right one, and it comes |
| `addresses` | both families, ports at the edges of their bytes, scope ids that do and do not fit into 16 bits | packets go to the peer, up to the scope id, `remote_endpoint` as far as it can |
| `stale_accept`, `rearmed_write` | smallest that shows it | a promise of the repository that the code breaks (section 6) |

Twelve more configurations are kept beside the runs; each checks one property that TLC
finds violated, and section 6 says what it shows: `WriteAfterEof`,
`SendFailsInWrite` (with `MCUtpSockets`), `CloseWhileSending` (`MCReceiveLoop`),
`EmptyFirstBuffer` (`MCStream`), `MovedFrom`, `AssignedMultiplexer`, `CrossAssign`,
`BorrowedPort` (`MCOwnership`), `AssignedConnection` (`Signal`), `ScopedAddress`,
`RemoteEndpointV6` (`MCAddresses`), `SlotCloses` (`Reentry`).

Bounds.  Two sockets are enough for one to interfere with another (the interference
is through the shared counter, the accept queue and the closing of all sockets, all
pairwise); the theorems remove the bound where there is one.  `MaxRx` 2 lets a chunk
wait behind another; `MaxRearm` bounds how often `on_writable` re-arms a write, which
the code does without limit and each time leaks a count.  A socket object is bound
once in `UtpSockets` and rebound at will in `Ownership`; a `udp_multiplexer` state
may come back after it was freed.  In `Stream` five bytes allow a write taken in
three parts and a queue of several chunks of which a read takes one and a half.  In
`Ownership` two objects of each kind are enough for a move, a copy and a stranger to
share a multiplexer while another one is alive; objects of a kind are interchangeable,
hence the symmetry.  Pointers that nothing can use any more are reset (`Links`,
`Sockets`), which keeps states that differ in nothing else together.  In
`Signal` a connection that is free, one that is running and two that are linked can
meet.  In `Reentry` six frames are enough for a slot of a write inside `on_read` to
close the socket and for the slot of that close to call it again; eight, with two
re-armed writes, pass as well.  Deadlock is not checked where a program that has closed everything may stop,
or a failed assertion stops it; elsewhere it is.

`Careful` restricts the client of `UtpSockets` to starting connects, accepts and writes
only while `is_open()`, to one connect or accept per socket, to not closing a socket
that is accepting, and to not dropping its last object in a slot of the tick;
properties that need it say so in their premise.  Without it a second accept fails
`assert(!_utp_socket)` (socket_impl.cpp:84) on the next connection, and a connect on a
used socket that of socket_impl.cpp:373.  The properties of `one_socket` do without.  In
`Reentry` being careful means, for a slot, to call the socket only while `is_open()`,
and neither in the middle of a call of the client's own nor with a write outstanding
(`CarefulCall`), because the slot may be running on behalf of that call; and to let go
of the last object only inside `on_read` (`Outside`), which keeps the multiplexer.
`liveness` assumes a careful client, because nothing is answered after a fault, and
sends that succeed.  `ownership` assumes that the client does not assign to a bound
udp_multiplexer and that abstract sockets have ports of their own; `signal` that a
slot leaves its own running connection alone and that linked connections are not
assigned to; `send_path` that a client makes one send at a time; `stream` that the
first buffer of a read with room is not empty.  What happens otherwise is in section 6
or under `hazards`.

Fairness.  Handlers, slots and callbacks return, and `io_context` runs in turn what has
been posted or is ready: weak fairness for the ends of handlers and frames, strong
fairness for handlers, completions and ticks, because other work disables them for a
while and a FIFO queue still gets to them.  In `UtpSockets` the ends of `on_read` and
the tick are strongly fair too: a slot that runs disables them, and libutp sends
finitely many packets in either.  `OnDestroy` is strongly fair because libutp ends a
closing connection by acknowledgement or by timeout as long as its timeouts are
checked.  `ReceiveAnswered` assumes that datagrams keep arriving (`Arrive`).  No
fairness is assumed of the client or of the peer otherwise, and none of the
liveness properties claims an answer for an operation on an open, silent
connection: the code gives none.  In `Stream` calls return and the network delivers:
while the reader is open, what libutp has taken arrives, then the FIN (src/README.md:53
says that it may get lost; then the reader waits), and acknowledgements open the
window; all of these stay enabled until they happen, so weak fairness is enough.  After
the reader has gone nothing is promised: libutp reports an error, and
`callback_on_error` answers nobody.  In
`SendPath` the UDP socket completes its operations and posted handlers run.

## 4. Proofs

Every safety property that a run checks, invariant or refinement, is also a theorem, for
every value of the constants, except those of `reentry`; `PROJECT.json` pairs them.
`TypeOK` and `CompletionFinal` of `UtpSockets` are proved and in no run.  The
constants are assumed to be what they are declared as (`Sockets` finite, bounds
natural, flags Boolean, a context that is not a user, a `Nil` that is not an object).
A theorem that needs more of the client says so: in the premise of the property
(`Careful`, `OneAtATime`) or in an `ASSUME`, listed below.  In each module an inductive
invariant is found first (and was given to TLC before it was given to the prover),
then proved action by action; the properties follow from it.

**`UtpSockets_proof`.**  Three layers:

- `Bookkeeping`: `OpCountExact` needs to know that a new operation adds a closure
  (`after \subseteq waiting`), that re-arming does not (`slot \subseteq after`), and
  that a close is counted once (`decClose \subseteq closed`).  Counting is done by
  cardinality lemmas (`CountAdd`, `SetupOp`, `CloseWithError`).
- `Lifecycle`: which connection states go with which handlers and facades.
- `Looping`: registration, ticker and frame follow the counter while the
  multiplexer lives.

Theorems: `TypeCorrect`, `NoCompletionLost`, `CounterExact`, `NoLostWakeup`,
`ClosesTracked`, `AssertionsHold`.

**`UtpClients_proof`** builds on those.  `Answers` describes what any step may do to
what is queued: it keeps a code or runs the handler, posts `connection_reset` to a
read only after EOF with nothing left, and changes the receive queue only while no
such answer waits (`NoDataCutOff`, `AnswersFinal`).  `ClosedKeepsNothing` turns out to
be inductive as it stands (`CloseAnswersAll`).  `CarefulClientSafe` needs the entries
of the accept queue to be distinct, or popping one would leave a second that no longer
waits, and needs `Lifecycle`, or reading EOF might close a socket that is accepting
(`CarefulIsSafe`).  It is proved for sends that succeed and for sends that fail: in the
second case an entry of the queue may have been closed by the failed send, and the
theorem leaves two faults, that entry's and the write whose handler is gone.  `Refinement`: a step that takes the counter across zero is
`StartOps` or `StopOps` of `ContextLoop`, all others are invisible or the loop's own.
With `ReceiveLoop_proof` both sides of the contract are proved.

**`ReceiveLoop_proof`**, from `Ctx \notin Users`: `IInv` is the conjunction of all
checked invariants and `Lifetimes` (who can exist at which time of the multiplexer's
life; an entry is in at most one list).  Theorems: `OneReceiveAtATime`,
`NoLostWakeup`, `WaitersKnown`, `TickerNeverStalls`, `DestructionComplete`, and
`Refinement` of `ContextLoop`.

**`Stream_proof`**: `QueueContiguous` speaks of the moments outside `do_read`.
Inside it the queue still begins where it began before and the copy is `rest` bytes
ahead (`Copying`), the chunks join without gaps up to the last byte that arrived
(`Chained`), and a reader waits only at an empty queue before EOF (`Ending`).  A write
that has stopped is owed an `on_writable`, or it came before libutp regarded the
connection as established, and then nothing has been taken yet.
Theorems: `TypeCorrect`, `WriteAccount`, `NothingLostInQueue`, `Refinement` of
`ByteStream`, and `ReadsMakeProgress`, which assumes that the first buffer of a read
with room is not empty; `EmptyFirstBuffer` shows why it must.

**`Ownership_proof`**: beside the checked invariants, no two sockets share a
socket_impl and no two udp_multiplexers a state; without `AssignOver` every open state
has an object, without `CrossAssign` a registry refers to multiplexers of its own
`io_context` only, and with `OwnPorts` no two multiplexers share a port.  Theorems, for
every client: `OwnersValid`, `RegistryAlive`.  `PortsShareable` assumes `OwnPorts`,
`NothingLeaks` assumes `~AssignOver`, `NeverExpired` assumes `~CrossAssign`,
`RegistryLeftEmpty` the last two; `BorrowedPort`, `AssignedMultiplexer` and
`CrossAssign` show that the code does not do without.

**`Signal_proof`**: `Walking` says of every call on the stack, not only of the topmost,
that its iterator is at some place of its list, that it has called the slots which are
now up to that place, once each and no others, and that the slots that are due are
still in the list: slots keep their order, whatever becomes of their connections.  With `LinkedOnce`, `SlotsApart` and
`Filled` it is inductive.  Theorems: `SoundLists`, `CallsReachEverySlot`.

**`SendPath_proof`**: `Reachable` (who refers to a state) holds for every client,
`OneSendPerState` (a send in flight is the one its state's handler and buffers belong
to) for a client that waits for its handlers.  Theorems: `EverySendAnsweredOnce`,
`ResultsNotMixedUp`, `SignalOfTheSend`.

**`Addresses_proof`**: byte swapping is an involution on 16-bit numbers, hence a
conversion and its inverse lose only the scope id; `PeersKept` for all ports,
addresses and scope ids.

Only model-checked: liveness, which the prover cannot express, i.e. `CloseCompletes`,
`AbandonedOpsComplete`, `MultiplexerFreed`, `ReceiveAnswered`, `StateFreed`,
`WriteEnds`, `ReadEnds`, `SendCompletes`; the properties of `Reentry`; and the
counterexamples of section 6.

## 5. Not modelled

- Debug identifiers, logging, type aliases: no state that anything depends on.
- The examples, tests and the benchmark: programs that use the library.
- libutp's protocol and Boost.Asio, which are external; `udp_socket_wrapper` only
  forwards to the latter.
- Slots in the middle of an accept or of `on_error`, or with several sockets on the
  context: `Reentry` has one socket, and a completion handler returns at once in it.  In
  particular the vector `_registered_sockets` that `callback_sendto` walks while a slot
  may bind another socket is not modelled.
- The read of `_debug` from a destroyed multiplexer (udp_multiplexer_impl.cpp:73): it
  decides about a line of log only (`ReceiveLoop.OnOrphaned`).
- Lifetimes of client memory: buffers, and the destination that `async_send_to` keeps
  by reference.
- Memory that is never freed: `_registered_sockets` and the context refer to each
  other.  The effect, that old socket_impls are still closed by failed sends, is.
- A slot that drops its own connection while it runs; overlapping sends of one
  udp_multiplexer (see `hazards`).
- Conflicts between a wildcard address and a specific one on the same port, which
  the operating system decides.
- Errors of `socket.open` and of `local_endpoint`, which throw; the work guards in
  handlers; exceptions thrown by handlers.
- The order of the lists in `ReceiveLoop`: nothing stated depends on it.

## 6. Where code and repository disagree

Two of these are runs, and findings in `PROJECT.json`:

- `stale_accept`: closing an accepting socket leaves it in the accept queue; the
  next connection fails `assert(_accept_handler)`.
- `rearmed_write`: each write that waits for `on_writable` leaks one count, and
  `io_context::run` does not return any more.  `OpCountExact` shows that this is
  the only leak.

The others are the additional configurations of section 3:

- `WriteAfterEof`: a write after EOF was read is stored in a closed socket and never
  answered; `assert(!_send_handler)` (socket_impl.cpp:311) fails later.
- `SendFailsInWrite`: a fatal send error inside `utp_write` answers the write, and
  `do_write` then posts an empty handler (socket_impl.cpp:153).
- `SlotCloses`: the same without a failed send: a slot of `on_send_to`, called for a
  packet of the write, closes the socket or reads its end.
- `CloseWhileSending`: closing a udp_multiplexer that receives, with a send in
  flight, leaves an entry without a handler; `assert(e.handler)`
  (udp_multiplexer_impl.cpp:114) fails on the next datagram.
- `EmptyFirstBuffer`: `on_receive` leaves its loop after the first buffer
  (socket_impl.cpp:66); a waiting read whose first buffer is empty succeeds with no
  bytes, which the AsyncReadStream requirements of the repository's README exclude.
  With a non-empty first buffer every read makes progress (`ReadMakesProgress`).
- `MovedFrom`: `assert(other._socket_impl->_owner)` (socket.cpp:67) looks through the
  pointer that has just been moved away.
- `AssignedMultiplexer`: the defaulted move assignment (udp_multiplexer.hpp:42) does
  not close the state it replaces, whose own receive handler then keeps it and the
  port for ever, the leak that the comment at udp_multiplexer.cpp:163 is about.
- `CrossAssign`: `_service` is a reference and survives an assignment from another
  `io_context` (socket.cpp:62); the next multiplexer is entered there and erased from
  the other service, so an expired entry stays, against
  `assert(_multiplexers.empty())` (service.hpp:94, debug mode), and a later bind to
  it uses a null pointer.
- `BorrowedPort`: the destructor of a multiplexer erases by endpoint
  (udp_multiplexer_impl.cpp:160); one that was made from an abstract_udp_socket which
  reports the endpoint of another takes the other's entry along, and the next bind to
  that port fails instead of sharing it.
- `AssignedConnection`: assigning to a linked `Connection` swaps the node of the other
  one, without its slot, into the list; the next call reaches `assert(0)`
  (signal.hpp:63).
- `ScopedAddress`: the scope id of an IPv6 address does not survive the round trip that
  test/util.cpp:37 checks without one (util.hpp:30, util.hpp:103).
- `RemoteEndpointV6`: a 16-byte `sockaddr` holds half of an IPv6 address
  (socket_impl.cpp:244); the rest is read from beyond it.

## 7. Plan

Done: all components except those of section 5, each with its runs; theorems for every
safety property of the runs but those of `reentry`, and for the refinements of `ContextLoop` (from both sides)
and `ByteStream`.  Next, in order:

1. the properties of `Reentry` as theorems, and `Reentry` with several sockets and with
   accepting;
2. the safety parts of the liveness arguments, as theorems: what keeps the fair
   actions of `CloseCompletes`, `AbandonedOpsComplete` and `ReceiveAnswered` enabled or
   makes them so again;
3. properties for the hazards that have none yet, where the model can tell them apart:
   sends of other udp_multiplexers cancelled with the receive, a slot that drops its
   own connection;
4. the compositions that are only described: that a completed send of `ReceiveLoop` is
   one of `SendPath`, and that the callbacks of `UtpSockets` are those of `Stream`.
