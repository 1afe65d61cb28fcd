----------------------------- MODULE Ownership ------------------------------
(***************************************************************************)
(* Who refers to whom: the socket and udp_multiplexer objects of a client, *)
(* which can be moved, copied, assigned, closed and destroyed in any order, *)
(* the socket_impls with their plain pointer back to their owner, the      *)
(* udp_multiplexer_impls that live as long as a shared_ptr leads to them,  *)
(* and the services, one per io_context, that map endpoints to them.       *)
(*                                                                         *)
(* A udp_multiplexer_impl is alive while it is Held: its destruction is    *)
(* part of the action that drops the last reference.  Completion handlers  *)
(* are left out; a socket_impl whose client has lost it is kept by         *)
(* context::_registered_sockets, so its plain pointers stay in use.        *)
(***************************************************************************)
EXTENDS Naturals, FiniteSets

CONSTANTS
    Socks,        \* socket objects
    Umuxes,       \* udp_multiplexer objects
    Impls,        \* socket_impls
    States,       \* udp_multiplexer::states
    Muxes,        \* udp_multiplexer_impls
    Services,     \* io_contexts, each with its service
    Endpoints,    \* local endpoints
    AnyPort,      \* the endpoint with port 0
    Nil,          \* a null pointer
    Asserts,      \* is the program built with assertions?
    OwnPorts,     \* do its abstract_udp_sockets have ports of their own?
    AssignOver,   \* does the client assign to bound udp_multiplexers?
    CrossAssign   \* does it assign sockets across io_contexts?

ASSUME NilAssumption ==
    Nil \notin Socks \cup Umuxes \cup Impls \cup States \cup Muxes \cup Services
ASSUME PortAssumption == AnyPort \notin Endpoints
ASSUME ClientAssumption ==
    Asserts \in BOOLEAN /\ OwnPorts \in BOOLEAN /\ AssignOver \in BOOLEAN /\ CrossAssign \in BOOLEAN

VARIABLES
    sock,      \* the members of each socket; svc is Nil when it is not alive
    owner,     \* socket_impl::_owner, of those that are open
    open,      \* the socket_impls that are not _closed
    conn,      \* _utp_socket and _got_eof
    implMux,   \* the multiplexer whose context a socket_impl shares
    umux,      \* udp_multiplexer::_state
    state,     \* state::impl
    local,     \* the UDP socket of each multiplexer: its io_context, its
               \* endpoint, and whether the service made it
    registry,  \* service::_multiplexers
    fault      \* the null pointer that was used, or "none"

implVars == <<owner, open, conn, implMux>>
vars     == <<sock, implVars, umux, state, local, registry, fault>>

Ref(S) == S \cup {Nil}

Facades == [svc : Ref(Services), ex : Ref(Services), impl : Ref(Impls), mux : Ref(Muxes)]
NoFacade == [svc |-> Nil, ex |-> Nil, impl |-> Nil, mux |-> Nil]

\* "live": a utp_socket.  "eof": one whose peer has ended the stream.
\* "closing": utp_close has been called, libutp still has the connection.
ConnStates == {"none", "live", "eof", "closing"}

Addresses == Endpoints \cup {AnyPort}

UdpSockets == [svc : Ref(Services), ep : Ref(Endpoints), made : BOOLEAN]
NoUdpSocket == [svc |-> Nil, ep |-> Nil, made |-> FALSE]

TypeOK ==
    /\ sock \in [Socks -> Facades]
    /\ owner \in [Impls -> Ref(Socks)]
    /\ open \subseteq Impls
    /\ conn \in [Impls -> ConnStates]
    /\ implMux \in [Impls -> Ref(Muxes)]
    /\ umux \in [Umuxes -> Ref(States)]
    /\ state \in [States -> Ref(Muxes)]
    /\ local \in [Muxes -> UdpSockets]
    /\ registry \in [Services -> [Addresses -> Ref(Muxes)]]
    /\ fault \in {"none", "null_multiplexer", "moved_from"}

Init ==
    /\ sock = [f \in Socks |-> NoFacade]
    /\ owner = [i \in Impls |-> Nil]
    /\ open = {}
    /\ conn = [i \in Impls |-> "none"]
    /\ implMux = [i \in Impls |-> Nil]
    /\ umux = [u \in Umuxes |-> Nil]
    /\ state = [s \in States |-> Nil]
    /\ local = [m \in Muxes |-> NoUdpSocket]
    /\ registry = [c \in Services |-> [e \in Addresses |-> Nil]]
    /\ fault = "none"

-----------------------------------------------------------------------------
(***************************************************************************)
(* References.                                                             *)
(***************************************************************************)

\* The multiplexers that sockets sk and states st refer to.  A state lives
\* as long as its own recv_entry.handler refers to it, that is until it is
\* closed, whether or not an object still leads to it.
HeldBy(sk, st) == ({sk[f].mux : f \in Socks} \cup {st[s] : s \in States}) \ {Nil}

Held == HeldBy(sock, state)

\* Mutant: the destructor does not take the multiplexer off the registry.
Erase_not(reg, dead) == reg

\* service::erase_multiplexer, by endpoint, for every multiplexer in dead.
Erase(reg, dead) ==
    [c \in Services |-> [e \in Addresses |->
        IF \E m \in dead : local[m].svc = c /\ local[m].ep = e THEN Nil ELSE reg[c][e]]]

\* The socket_impls whose connection utp_destroy ends when dead are destroyed.
Orphans(dead) == {i \in Impls : implMux[i] \in dead /\ conn[i] # "none"}

\* The UDP sockets loc of the multiplexers, as far as anything leads to them.
Sockets(loc) ==
    local' = [m \in Muxes |->
        IF \/ m \in HeldBy(sock', state')
           \/ \E c \in Services, e \in Addresses : registry'[c][e] = m
        THEN loc[m] ELSE NoUdpSocket]

\* ~udp_multiplexer_impl for what sk and st no longer lead to, given that
\* the socket_impls in opn are open and have connections cn.
Release(sk, st, opn, cn) ==
    LET dead == Held \ HeldBy(sk, st)
    IN  /\ sock' = sk
        /\ state' = st
        /\ registry' = Erase(registry, dead)
        /\ open' = opn \ Orphans(dead)
        /\ conn' = [i \in Impls |-> IF i \in Orphans(dead) THEN "none" ELSE cn[i]]
        /\ Sockets(local)

\* The pointers own and mux of the socket_impls, as far as they can still be
\* used: close_with_error of a closed socket_impl returns early.
Links(own, mux) ==
    /\ owner' = [i \in Impls |-> IF i \in open' THEN own[i] ELSE Nil]
    /\ implMux' = [i \in Impls |-> IF i \in open' \/ conn'[i] # "none" THEN mux[i] ELSE Nil]

\* Pointers into memory that is not in use.  socket_impls are never freed,
\* but one that is closed and that nobody leads to is as good as a new one.
FreeImpl(i)  == /\ i \notin open /\ conn[i] = "none"
                /\ \A f \in Socks : sock[f].impl # i
FreeState(s) == state[s] = Nil /\ \A u \in Umuxes : umux[u] # s
FreeMux(m)   == m \notin Held /\ \A c \in Services, e \in Addresses : registry[c][e] # m

\* The ports the operating system has given away: those of the UDP sockets
\* the service has bound, and those of abstract_udp_sockets that are what
\* they say.
Taken == {local[m].ep : m \in {n \in Held : local[n].made \/ OwnPorts}}

May == fault = "none"

-----------------------------------------------------------------------------
(***************************************************************************)
(* maybe_create_udp_multiplexer.  A port is asked for by number or left to *)
(* the operating system; a multiplexer is created when the registry has    *)
(* none for the endpoint and its port is free.                             *)
(***************************************************************************)

\* The registry has an entry, whatever has become of its multiplexer.
Found(c, e, m) == registry[c][e] = m /\ m # Nil

\* udp_multiplexer_impl::create for a socket of io_context c.
NewMux(c, ep, m, made) ==
    [local EXCEPT ![m] = [svc |-> c, ep |-> ep, made |-> made]]

\* Mutant: registers the endpoint that was asked for.
Register_asked(c, e, ep, m) == [registry EXCEPT ![c][e] = m]

\* e was asked for, and ep is the local_endpoint.
Register(c, e, ep, m) == [registry EXCEPT ![c][ep] = m]

Creates(c, e, ep, m) ==
    /\ registry[c][e] = Nil
    /\ e = ep \/ e = AnyPort
    /\ ep \notin Taken
    /\ FreeMux(m)

-----------------------------------------------------------------------------
(***************************************************************************)
(* The socket facade.                                                      *)
(***************************************************************************)

NewSocket(f, c) ==
    /\ May
    /\ sock[f] = NoFacade
    /\ sock' = [sock EXCEPT ![f] = [NoFacade EXCEPT !.svc = c, !.ex = c]]
    /\ UNCHANGED <<implVars, umux, state, local, registry, fault>>

Alive(f) == sock[f].svc # Nil

\* The end of socket::bind: a new socket_impl, registered with the context
\* of m.  What the facade referred to before is released.
Attach(f, m, i, reg, loc) ==
    LET sk   == [sock EXCEPT ![f].impl = i, ![f].mux = m]
        dead == Held \ HeldBy(sk, state)
    IN  /\ FreeImpl(i)
        /\ sock' = sk
        /\ open' = (open \ Orphans(dead)) \cup {i}
        /\ conn' = [j \in Impls |-> IF j \in Orphans(dead) THEN "none" ELSE conn[j]]
        /\ Links([owner EXCEPT ![i] = f], [implMux EXCEPT ![i] = m])
        /\ registry' = Erase(reg, dead)
        /\ UNCHANGED <<umux, state>>
        /\ Sockets(loc)

\* socket::bind(ep) to a multiplexer that the registry knows.
BindShared(f, e, m, i) ==
    /\ May /\ Alive(f) /\ sock[f].impl = Nil
    /\ Found(sock[f].svc, e, m)
    /\ m \in Held
    /\ Attach(f, m, i, registry, local)
    /\ UNCHANGED fault

\* The same, when its weak_ptr has expired: lock() returns null, ec is not
\* set, and bind goes on with get_context().
BindExpired(f, e, m) ==
    /\ May /\ Alive(f) /\ sock[f].impl = Nil
    /\ Found(sock[f].svc, e, m)
    /\ m \notin Held
    /\ fault' = "null_multiplexer"
    /\ UNCHANGED <<sock, implVars, umux, state, local, registry>>

\* socket::bind(ep) to a new UDP socket, which belongs to the executor and is
\* registered with the service.
BindNew(f, e, ep, m, i) ==
    /\ May /\ Alive(f) /\ sock[f].impl = Nil
    /\ Creates(sock[f].svc, e, ep, m)
    /\ Attach(f, m, i, Register(sock[f].svc, e, ep, m), NewMux(sock[f].ex, ep, m, TRUE))
    /\ UNCHANGED fault

\* socket::bind(udp_multiplexer)
BindTo(f, u, i) ==
    /\ May /\ Alive(f) /\ sock[f].impl = Nil
    /\ umux[u] # Nil /\ state[umux[u]] # Nil
    /\ Attach(f, state[umux[u]], i, registry, local)
    /\ UNCHANGED fault

\* The same, when the udp_multiplexer was bound with an expired weak_ptr.
BindToExpired(f, u) ==
    /\ May /\ Alive(f) /\ sock[f].impl = Nil
    /\ umux[u] # Nil /\ state[umux[u]] = Nil
    /\ fault' = "null_multiplexer"
    /\ UNCHANGED <<sock, implVars, umux, state, local, registry>>

\* Mutant: _owner keeps pointing to the object that was moved from.
Adopt_not(i, f) == owner

\* _socket_impl->_owner = this
Adopt(i, f) == IF i = Nil THEN owner ELSE [owner EXCEPT ![i] = f]

\* socket(socket&&)
MoveConstruct(f, g) ==
    /\ May
    /\ sock[f] = NoFacade /\ Alive(g)
    /\ sock' = [sock EXCEPT ![f] = sock[g], ![g].impl = Nil, ![g].mux = Nil]
    /\ UNCHANGED <<open, conn>>
    /\ Links(Adopt(sock[g].impl, f), implMux)
    /\ UNCHANGED <<umux, state, local, registry, fault>>

\* close_with_error of the socket_impls in I, as far as their connections go.
Closing(I) == {i \in I \cap open : conn[i] = "live"}

CloseConn(I) == [i \in Impls |-> IF i \in Closing(I) THEN "closing" ELSE conn[i]]

\* socket::close: members of a facade whose socket_impl is gone stay as they are.
Closed(f) == IF sock[f].impl = Nil THEN sock[f]
             ELSE [sock[f] EXCEPT !.impl = Nil, !.mux = Nil]

\* socket::operator=(socket&&).  _service is a reference and stays; the
\* assertion looks into the object that has just been moved from.
MoveAssign(f, g) ==
    LET sk == [sock EXCEPT ![f] = [Closed(f) EXCEPT !.ex = sock[g].ex,
                                                    !.impl = sock[g].impl,
                                                    !.mux = sock[g].mux],
                           ![g].impl = Nil, ![g].mux = Nil]
        I  == {sock[f].impl} \ {Nil}
    IN  /\ May
        /\ f # g /\ Alive(f) /\ Alive(g)
        /\ CrossAssign \/ sock[f].svc = sock[g].ex
        /\ Release(sk, state, open \ I, CloseConn(I))
        /\ Links(Adopt(sock[g].impl, f), implMux)
        /\ fault' = IF Asserts /\ sock[g].impl # Nil THEN "moved_from" ELSE fault
        /\ UNCHANGED umux

\* socket::close, which ~socket calls as well: with gone, the object is
\* destroyed and its members with it.
CloseSocket(f, gone) ==
    LET I == {sock[f].impl} \ {Nil}
    IN  /\ May /\ Alive(f)
        /\ Release([sock EXCEPT ![f] = IF gone THEN NoFacade ELSE Closed(f)],
                   state, open \ I, CloseConn(I))
        /\ Links(owner, implMux)
        /\ UNCHANGED <<umux, fault>>

-----------------------------------------------------------------------------
(***************************************************************************)
(* Connections and the failures that close a socket_impl under its owner.  *)
(***************************************************************************)

\* do_connect, or the on_accept of an accepting socket.
Connect(i) ==
    /\ May
    /\ i \in open /\ conn[i] = "none"
    /\ conn' = [conn EXCEPT ![i] = "live"]
    /\ UNCHANGED <<sock, owner, open, implMux, umux, state, local, registry, fault>>

OnEof(i) ==
    /\ May
    /\ conn[i] = "live"
    /\ conn' = [conn EXCEPT ![i] = "eof"]
    /\ UNCHANGED <<sock, owner, open, implMux, umux, state, local, registry, fault>>

\* do_read at the end of the stream closes without detaching.
ReadEof(f) ==
    /\ May /\ Alive(f)
    /\ sock[f].impl \in open /\ conn[sock[f].impl] = "eof"
    /\ open' = open \ {sock[f].impl}
    /\ UNCHANGED conn
    /\ Links(owner, implMux)
    /\ UNCHANGED <<sock, umux, state, local, registry, fault>>

\* libutp has ended a connection that was closed.
OnDestroy(i) ==
    /\ May
    /\ conn[i] = "closing"
    /\ conn' = [conn EXCEPT ![i] = "none"]
    /\ UNCHANGED open
    /\ Links(owner, implMux)
    /\ UNCHANGED <<sock, umux, state, local, registry, fault>>

\* callback_sendto meets an error and closes every registered socket; those
\* with a connection clear their owner's _socket_impl, through _owner.
SendFails(m) ==
    LET I == {i \in Impls : implMux[i] = m}
    IN  /\ May
        /\ m \in Held
        /\ I \cap open # {}
        /\ open' = open \ I
        /\ conn' = CloseConn(I)
        /\ sock' = [f \in Socks |-> IF \E i \in Closing(I) : owner[i] = f
                                    THEN [sock[f] EXCEPT !.impl = Nil] ELSE sock[f]]
        /\ Links(owner, implMux)
        /\ UNCHANGED <<umux, state, local, registry, fault>>

-----------------------------------------------------------------------------
(***************************************************************************)
(* The udp_multiplexer facade.                                             *)
(***************************************************************************)

\* The object u is given the new state s, which refers to m.
Refer(u, s, m) ==
    /\ FreeState(s)
    /\ umux' = [umux EXCEPT ![u] = s]
    /\ state' = [state EXCEPT ![s] = m]

\* udp_multiplexer::bind(ep), of an object that is not bound.
UmuxBindShared(u, c, e, m, s) ==
    /\ May /\ umux[u] = Nil
    /\ Found(c, e, m)
    /\ m \in Held
    /\ Refer(u, s, m)
    /\ UNCHANGED <<sock, implVars, local, registry, fault>>

\* With an expired weak_ptr, the new state has no multiplexer.
UmuxBindExpired(u, c, e, m, s) ==
    /\ May /\ umux[u] = Nil
    /\ Found(c, e, m)
    /\ m \notin Held
    /\ Refer(u, s, Nil)
    /\ UNCHANGED <<sock, implVars, local, registry, fault>>

UmuxBindNew(u, c, e, ep, m, s) ==
    /\ May /\ umux[u] = Nil
    /\ Creates(c, e, ep, m)
    /\ local' = NewMux(c, ep, m, TRUE)
    /\ registry' = Register(c, e, ep, m)
    /\ Refer(u, s, m)
    /\ UNCHANGED <<sock, implVars, fault>>

\* udp_multiplexer::bind(abstract_udp_socket): the service is not told, and
\* nobody looks at the endpoint the socket reports.
UmuxBindAbstract(u, c, ep, m, s) ==
    /\ May /\ umux[u] = Nil
    /\ OwnPorts => ep \notin Taken
    /\ FreeMux(m)
    /\ local' = NewMux(c, ep, m, FALSE)
    /\ Refer(u, s, m)
    /\ UNCHANGED <<sock, implVars, registry, fault>>

\* The copy constructor, and the copy assignment: a copy, moved over u.  The
\* state u had before is left to the reference its own handler holds.
UmuxCopy(u, v, s) ==
    /\ May
    /\ umux[v] # Nil
    /\ umux[u] # Nil => AssignOver
    /\ Refer(u, s, state[umux[v]])
    /\ UNCHANGED <<sock, implVars, local, registry, fault>>

\* The move constructor and the move assignment.
UmuxMove(u, v) ==
    /\ May
    /\ u # v /\ umux[v] # Nil
    /\ umux[u] # Nil => AssignOver
    /\ umux' = [umux EXCEPT ![u] = umux[v], ![v] = Nil]
    /\ UNCHANGED <<sock, implVars, state, local, registry, fault>>

\* Mutant: the state that is closed keeps its multiplexer.
Dropped_kept(s) == state

\* close: recv_entry.handler and impl of the state are reset.
Dropped(s) == [state EXCEPT ![s] = Nil]

\* udp_multiplexer::bind(other), deprecated: close, and then copy.  The copy
\* may get the memory of the state that was closed.
UmuxRebind(u, v, s) ==
    LET st == Dropped(umux[u])
    IN  /\ May
        /\ u # v /\ umux[u] # Nil /\ umux[v] # Nil
        /\ FreeState(s) \/ s = umux[u]
        /\ umux' = [umux EXCEPT ![u] = s]
        /\ Release(sock, [st EXCEPT ![s] = state[umux[v]]], open, conn)
        /\ Links(owner, implMux)
        /\ UNCHANGED fault

\* udp_multiplexer::close, ~udp_multiplexer
UmuxClose(u) ==
    /\ May
    /\ umux[u] # Nil
    /\ umux' = [umux EXCEPT ![u] = Nil]
    /\ Release(sock, Dropped(umux[u]), open, conn)
    /\ Links(owner, implMux)
    /\ UNCHANGED fault

-----------------------------------------------------------------------------

BindNext ==
    \E f \in Socks, i \in Impls :
        \/ \E u \in Umuxes : BindTo(f, u, i) \/ BindToExpired(f, u)
        \/ \E e \in Addresses, m \in Muxes :
              \/ BindShared(f, e, m, i) \/ BindExpired(f, e, m)
              \/ \E ep \in Endpoints : BindNew(f, e, ep, m, i)

SockNext ==
    \/ \E f \in Socks :
          \/ \E c \in Services : NewSocket(f, c)
          \/ \E gone \in BOOLEAN : CloseSocket(f, gone)
          \/ ReadEof(f)
          \/ \E g \in Socks : MoveConstruct(f, g) \/ MoveAssign(f, g)
    \/ \E i \in Impls : Connect(i) \/ OnEof(i) \/ OnDestroy(i)
    \/ \E m \in Muxes : SendFails(m)

UmuxNext ==
    \E u \in Umuxes :
        \/ UmuxClose(u)
        \/ \E v \in Umuxes : UmuxMove(u, v)
        \/ \E v \in Umuxes, s \in States : UmuxCopy(u, v, s) \/ UmuxRebind(u, v, s)
        \/ \E c \in Services, m \in Muxes, s \in States :
              \/ \E e \in Addresses : UmuxBindShared(u, c, e, m, s) \/ UmuxBindExpired(u, c, e, m, s)
              \/ \E ep \in Endpoints : UmuxBindAbstract(u, c, ep, m, s)
              \/ \E e \in Addresses, ep \in Endpoints : UmuxBindNew(u, c, e, ep, m, s)

Next == BindNext \/ SockNext \/ UmuxNext

Spec == Init /\ [][Next]_vars

-----------------------------------------------------------------------------
(***************************************************************************)
(* Properties.                                                             *)
(***************************************************************************)

\* _owner is a plain pointer that close_with_error writes through.  As long
\* as a socket_impl can still be closed, its owner is a living socket that
\* refers to it, and to the multiplexer whose context it shares.
OwnerValid ==
    \A i \in open : \E f \in Socks :
        /\ owner[i] = f
        /\ Alive(f)
        /\ sock[f].impl = i
        /\ sock[f].mux = implMux[i] /\ implMux[i] # Nil

\* lock() in maybe_create_udp_multiplexer does not return null: whatever was
\* moved, copied, closed or destroyed, the registry has living multiplexers
\* only, each under its own endpoint.  The one exception are multiplexers of
\* another io_context than the service's own (see RegistryEmptied).
RegistryLive ==
    \A c \in Services, e \in Addresses :
        LET m == registry[c][e]
        IN  m # Nil /\ local[m].svc = c => m \in Held /\ local[m].ep = e

\* A second socket can be bound to the endpoint of a first one: a registry
\* has, for every port that is occupied, the multiplexer that occupies it,
\* unless it was made from an abstract_udp_socket; and it is the registry of
\* its io_context unless sockets were assigned across.  A client whose
\* abstract_udp_sockets report ports of others (~OwnPorts) loses this: the
\* destructor of a multiplexer erases whatever entry has its endpoint.
Shareable ==
    \A m \in Held : local[m].made =>
        \E c \in Services :
            /\ registry[c][local[m].ep] = m
            /\ CrossAssign \/ local[m].svc = c

\* Nothing leaks: a multiplexer, and with it a port, is held by an object the
\* client still has.
HeldByClient ==
    \A m \in Held :
        \/ \E f \in Socks : Alive(f) /\ sock[f].mux = m
        \/ \E u \in Umuxes : umux[u] # Nil /\ state[umux[u]] = m

\* assert(other._socket_impl->_owner)
MovedFromUnused == fault # "moved_from"

\* ~service: assert(_multiplexers.empty()), once no object is left.
RegistryEmptied ==
    (\A f \in Socks : ~Alive(f)) /\ (\A u \in Umuxes : umux[u] = Nil)
        => \A c \in Services, e \in Addresses : registry[c][e] = Nil

=============================================================================
