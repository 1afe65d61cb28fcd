-------------------------- MODULE Ownership_proof ---------------------------
EXTENDS Ownership, TLAPS

(***************************************************************************)
(* The inductive invariant.  It is the conjunction of the properties of    *)
(* the runs, with the facts they rest on: no two objects share a           *)
(* socket_impl or a state, or, if abstract_udp_sockets have ports of their *)
(* own, a port.                                                            *)
(***************************************************************************)

\* A socket_impl belongs to one socket.
ImplsApart ==
    \A f, g \in Socks : sock[f].impl = sock[g].impl /\ sock[f].impl # Nil => f = g

\* A socket that is not alive refers to nothing, and without assignments
\* across io_contexts a socket's executor is that of its service.
SocksSound ==
    \A f \in Socks :
        /\ sock[f].svc = Nil => sock[f] = NoFacade
        /\ CrossAssign \/ sock[f].ex = sock[f].svc

\* A multiplexer has a port, which the operating system gives away once.
PortsApart ==
    /\ \A m \in Held : local[m].ep \in Endpoints
    /\ OwnPorts => \A m, n \in Held : local[m].ep = local[n].ep => m = n

\* A state belongs to one udp_multiplexer.
StatesApart ==
    \A u, v \in Umuxes : umux[u] = umux[v] /\ umux[u] # Nil => u = v

\* Without assignments to bound objects, a state that is not closed belongs
\* to an object.
StatesOwned ==
    ~AssignOver => \A s \in States : state[s] # Nil => \E u \in Umuxes : umux[u] = s

\* Without assignments across io_contexts a service has multiplexers of its
\* own io_context only, and nobody meets one that has expired.
OwnIoContext ==
    ~CrossAssign =>
        \A c \in Services, e \in Addresses : registry[c][e] # Nil => local[registry[c][e]].svc = c

NoneExpired ==
    ~CrossAssign =>
        /\ \A u \in Umuxes : umux[u] # Nil => state[umux[u]] # Nil
        /\ fault # "null_multiplexer"

\* The sockets, the multiplexers, and the udp_multiplexer objects.
SocksInv  == OwnerValid /\ ImplsApart /\ SocksSound
MuxesInv  == RegistryLive /\ PortsApart /\ (OwnPorts => Shareable) /\ OwnIoContext
UmuxesInv == StatesApart /\ StatesOwned /\ NoneExpired

IInv == TypeOK /\ SocksInv /\ MuxesInv /\ UmuxesInv

-----------------------------------------------------------------------------
(***************************************************************************)
(* What is held.                                                           *)
(***************************************************************************)

LEMMA HeldByIs ==
  ASSUME NEW sk, NEW st, NEW m
  PROVE  m \in HeldBy(sk, st) <=>
            m # Nil /\ ((\E f \in Socks : sk[f].mux = m) \/ (\E s \in States : st[s] = m))
BY DEF HeldBy

LEMMA HeldTypes ==
  ASSUME TypeOK
  PROVE  /\ Held \in SUBSET Muxes
         /\ \A f \in Socks : sock[f] \in Facades
         /\ \A f \in Socks : sock[f].mux # Nil => sock[f].mux \in Held
         /\ \A s \in States : state[s] # Nil => state[s] \in Held
<1>1. \A f \in Socks : sock[f] \in Facades
  BY DEF TypeOK
<1>2. \A f \in Socks : sock[f].mux \in Muxes \cup {Nil}
  BY <1>1 DEF Facades, Ref
<1> QED
  BY <1>1, <1>2 DEF Held, HeldBy, TypeOK, Ref

-----------------------------------------------------------------------------
(***************************************************************************)
(* The registry and the ports, whatever becomes of the objects: a step     *)
(* drops multiplexers, or creates one and may drop others.                 *)
(***************************************************************************)

LEMMA EraseEffect ==
  ASSUME NEW reg, NEW dead, NEW c \in Services, NEW e \in Addresses
  PROVE  Erase(reg, dead)[c][e] =
            IF \E m \in dead : local[m].svc = c /\ local[m].ep = e THEN Nil ELSE reg[c][e]
BY DEF Erase

LEMMA MuxesSame ==
  ASSUME MuxesInv, Held' = Held, UNCHANGED <<local, registry>>
  PROVE  MuxesInv'
BY DEF MuxesInv, RegistryLive, PortsApart, Shareable, OwnIoContext

\* ~udp_multiplexer_impl
LEMMA MuxesDropped ==
  ASSUME TypeOK, MuxesInv, Held' \in SUBSET Held,
         registry' = Erase(registry, Held \ Held'), Sockets(local)
  PROVE  MuxesInv'
<1> DEFINE dead == Held \ Held'
<1>0. Held \in SUBSET Muxes
  BY HeldTypes
<1>1. ASSUME NEW c \in Services, NEW e \in Addresses
      PROVE  registry'[c][e] = IF \E m \in dead : local[m].svc = c /\ local[m].ep = e
                               THEN Nil ELSE registry[c][e]
  BY EraseEffect
<1>2. \A m \in Held' : local'[m] = local[m]
  BY <1>0 DEF Sockets, Held
<1>3. ASSUME NEW c \in Services, NEW e \in Addresses, registry'[c][e] # Nil
      PROVE  /\ registry'[c][e] = registry[c][e]
             /\ local'[registry'[c][e]] = local[registry'[c][e]]
             /\ ~ \E m \in dead : local[m].svc = c /\ local[m].ep = e
  <2>1. /\ registry'[c][e] = registry[c][e]
        /\ ~ \E m \in dead : local[m].svc = c /\ local[m].ep = e
    BY <1>1, <1>3
  <2>2. registry[c][e] \in Muxes
    BY <1>3, <2>1 DEF TypeOK, Ref
  <2> QED
    BY <2>1, <2>2 DEF Sockets
<1>4. RegistryLive'
  <2> SUFFICES ASSUME NEW c \in Services, NEW e \in Addresses, NEW m, m = registry'[c][e],
                      m # Nil, local'[m].svc = c
               PROVE  m \in Held' /\ local'[m].ep = e
    BY DEF RegistryLive
  <2>1. /\ m = registry[c][e] /\ local'[m] = local[m]
        /\ ~ \E d \in dead : local[d].svc = c /\ local[d].ep = e
    BY <1>3
  <2>2. m \in Held /\ local[m].ep = e
    BY <2>1 DEF MuxesInv, RegistryLive
  <2> QED
    BY <2>1, <2>2
<1>5. PortsApart'
  BY <1>2 DEF MuxesInv, PortsApart
<1>6. ASSUME OwnPorts PROVE Shareable'
  <2> SUFFICES ASSUME NEW m \in Held', local'[m].made
               PROVE  \E c \in Services : registry'[c][local'[m].ep] = m /\ (CrossAssign \/ local'[m].svc = c)
    BY DEF Shareable
  <2>1. local'[m] = local[m] /\ m \in Held /\ m \in Muxes
    BY <1>0, <1>2
  <2>2. PICK c \in Services : registry[c][local[m].ep] = m /\ (CrossAssign \/ local[m].svc = c)
    BY <2>1, <1>6 DEF MuxesInv, Shareable
  <2>3. local[m].ep \in Addresses
    BY <2>1 DEF MuxesInv, PortsApart, Addresses
  <2>4. ~ \E d \in dead : local[d].svc = c /\ local[d].ep = local[m].ep
    BY <2>1, <1>6 DEF MuxesInv, PortsApart
  <2>5. registry'[c][local[m].ep] = m
    <3> SUFFICES ASSUME NEW e \in Addresses, e = local[m].ep PROVE registry'[c][e] = m
      BY <2>3
    <3>1. ~ \E d \in dead : local[d].svc = c /\ local[d].ep = e
      BY <2>4
    <3>2. registry'[c][e] = registry[c][e]
      BY <3>1, <1>1
    <3> QED
      BY <2>2, <3>2
  <2> QED
    BY <2>1, <2>2, <2>5
<1>7. OwnIoContext'
  <2> SUFFICES ASSUME ~CrossAssign, NEW c \in Services, NEW e \in Addresses, NEW m,
                      m = registry'[c][e], m # Nil
               PROVE  local'[m].svc = c
    BY DEF OwnIoContext
  <2>1. m = registry[c][e] /\ local'[m] = local[m]
    BY <1>3
  <2> QED
    BY <2>1 DEF MuxesInv, OwnIoContext
<1> QED
  BY <1>4, <1>5, <1>6, <1>7 DEF MuxesInv

LEMMA RegisterEffect ==
  ASSUME TypeOK, NEW c \in Services, NEW e, NEW ep \in Endpoints, NEW m \in Muxes
  PROVE  /\ Register(c, e, ep, m) \in [Services -> [Addresses -> Ref(Muxes)]]
         /\ \A c2 \in Services, e2 \in Addresses :
               Register(c, e, ep, m)[c2][e2] = IF c2 = c /\ e2 = ep THEN m ELSE registry[c2][e2]
<1>1. ep \in Addresses /\ m \in Ref(Muxes)
  BY DEF Addresses, Ref
<1>2. registry \in [Services -> [Addresses -> Ref(Muxes)]]
  BY DEF TypeOK
<1> QED
  BY <1>1, <1>2 DEF Register

\* udp_multiplexer_impl::create, and service::add_multiplexer
LEMMA MuxesCreated ==
  ASSUME TypeOK, MuxesInv,
         NEW c \in Services, NEW e, NEW ep \in Endpoints, NEW m \in Muxes, Creates(c, e, ep, m),
         NEW x, CrossAssign \/ x = c,
         Held' \in SUBSET (Held \cup {m}), m \in Held',
         \A c2 \in Services, e2 \in Addresses :
            registry'[c2][e2] = IF \E d \in Held \ Held' : local[d].svc = c2 /\ local[d].ep = e2
                                THEN Nil ELSE Register(c, e, ep, m)[c2][e2],
         local'[m].svc = x /\ local'[m].ep = ep /\ local'[m].made,
         \A n \in Muxes : n # m =>
            (n \in Held' \/ (\E c2 \in Services, e2 \in Addresses : registry'[c2][e2] = n)
                => local'[n] = local[n])
  PROVE  MuxesInv'
<1> DEFINE dead == Held \ Held'
<1>0. Held \in SUBSET Muxes /\ m # Nil /\ ep \in Addresses
  BY HeldTypes, NilAssumption DEF Addresses
<1>1. /\ m \notin Held
      /\ \A c2 \in Services, e2 \in Addresses : registry[c2][e2] # m
      /\ OwnPorts => \A n \in Held : local[n].ep # ep
  BY DEF Creates, FreeMux, Taken
<1>2. \A c2 \in Services, e2 \in Addresses : registry[c2][e2] # Nil => registry[c2][e2] \in Muxes
  BY DEF TypeOK, Ref
<1>4. \A n \in Held' : n # m => n \in Held /\ local'[n] = local[n]
  BY <1>0
<1>5. ASSUME OwnPorts PROVE registry'[c][ep] = m
  <2>1. ~ \E d \in dead : local[d].svc = c /\ local[d].ep = ep
    BY <1>1, <1>5
  <2> QED
    BY <2>1, <1>0, RegisterEffect
<1>6. ASSUME NEW c2 \in Services, NEW e2 \in Addresses, NEW n, n = registry'[c2][e2], n # Nil
      PROVE  \/ n = m /\ c2 = c /\ e2 = ep
             \/ /\ n # m /\ n = registry[c2][e2] /\ local'[n] = local[n]
                /\ ~ \E d \in dead : local[d].svc = c2 /\ local[d].ep = e2
  <2>1. /\ ~ \E d \in dead : local[d].svc = c2 /\ local[d].ep = e2
        /\ n = Register(c, e, ep, m)[c2][e2]
    BY <1>6
  <2>2. n = IF c2 = c /\ e2 = ep THEN m ELSE registry[c2][e2]
    BY <2>1, RegisterEffect
  <2>3. CASE c2 = c /\ e2 = ep
    BY <2>2, <2>3
  <2>4. CASE ~(c2 = c /\ e2 = ep)
    <3>1. n = registry[c2][e2] /\ n # m
      BY <2>2, <2>4, <1>1
    <3>2. n \in Muxes
      BY <3>1, <1>2, <1>6
    <3>3. local'[n] = local[n]
      BY <3>1, <3>2, <1>6
    <3> QED
      BY <2>1, <3>1, <3>3
  <2> QED
    BY <2>3, <2>4
<1>7. RegistryLive'
  <2> SUFFICES ASSUME NEW c2 \in Services, NEW e2 \in Addresses, NEW n, n = registry'[c2][e2],
                      n # Nil, local'[n].svc = c2
               PROVE  n \in Held' /\ local'[n].ep = e2
    BY DEF RegistryLive
  <2>1. CASE n = m /\ c2 = c /\ e2 = ep
    BY <2>1
  <2>2. CASE /\ n # m /\ n = registry[c2][e2] /\ local'[n] = local[n]
             /\ ~ \E d \in dead : local[d].svc = c2 /\ local[d].ep = e2
    <3>1. n \in Held /\ local[n].ep = e2
      BY <2>2 DEF MuxesInv, RegistryLive
    <3> QED
      BY <2>2, <3>1
  <2> QED
    BY <2>1, <2>2, <1>6
<1>8. PortsApart'
  BY <1>1, <1>4 DEF MuxesInv, PortsApart
<1>9. ASSUME OwnPorts PROVE Shareable'
  <2> SUFFICES ASSUME NEW n \in Held', local'[n].made
               PROVE  \E c2 \in Services : registry'[c2][local'[n].ep] = n /\ (CrossAssign \/ local'[n].svc = c2)
    BY DEF Shareable
  <2>1. CASE n = m
    BY <2>1, <1>5, <1>9
  <2>2. CASE n # m
    <3>1. local'[n] = local[n] /\ n \in Held
      BY <2>2, <1>4
    <3>2. PICK c2 \in Services : registry[c2][local[n].ep] = n /\ (CrossAssign \/ local[n].svc = c2)
      BY <3>1, <1>9 DEF MuxesInv, Shareable
    <3>3. local[n].ep \in Addresses /\ local[n].ep # ep
      BY <3>1, <1>1, <1>9 DEF MuxesInv, PortsApart, Addresses
    <3>4. ~ \E d \in dead : local[d].svc = c2 /\ local[d].ep = local[n].ep
      BY <3>1, <1>9 DEF MuxesInv, PortsApart
    <3>5. registry'[c2][local[n].ep] = n
      <4> SUFFICES ASSUME NEW e2 \in Addresses, e2 = local[n].ep PROVE registry'[c2][e2] = n
        BY <3>3
      <4>1. registry'[c2][e2] = Register(c, e, ep, m)[c2][e2]
        BY <3>4
      <4>2. Register(c, e, ep, m)[c2][e2] = registry[c2][e2]
        BY <3>3, RegisterEffect
      <4> QED
        BY <4>1, <4>2, <3>2
    <3> QED
      BY <3>1, <3>2, <3>5
  <2> QED
    BY <2>1, <2>2
<1>10. OwnIoContext'
  <2> SUFFICES ASSUME ~CrossAssign, NEW c2 \in Services, NEW e2 \in Addresses, NEW n, n = registry'[c2][e2],
                      n # Nil
               PROVE  local'[n].svc = c2
    BY DEF OwnIoContext
  <2> QED
    BY <1>6 DEF MuxesInv, OwnIoContext
<1> QED
  BY <1>7, <1>8, <1>9, <1>10 DEF MuxesInv

\* udp_multiplexer_impl::create for an abstract_udp_socket.
LEMMA MuxesGiven ==
  ASSUME TypeOK, MuxesInv, NEW ep \in Endpoints, NEW m \in Muxes, FreeMux(m), OwnPorts => ep \notin Taken,
         Held' = Held \cup {m}, UNCHANGED registry,
         local'[m].ep = ep /\ ~local'[m].made,
         \A n \in Muxes : n # m => local'[n] = local[n]
  PROVE  MuxesInv'
<1>0. Held \in SUBSET Muxes
  BY HeldTypes
<1>1. /\ m \notin Held
      /\ \A c2 \in Services, e2 \in Addresses : registry[c2][e2] # m
      /\ OwnPorts => \A n \in Held : local[n].ep # ep
  BY DEF FreeMux, Taken
<1>3. \A n \in Held : local'[n] = local[n]
  BY <1>0, <1>1
<1>5. ASSUME NEW c2 \in Services, NEW e2 \in Addresses, NEW n, n = registry[c2][e2], n # Nil
      PROVE  local'[n] = local[n]
  <2>1. n \in Muxes
    BY <1>5 DEF TypeOK, Ref
  <2> QED
    BY <2>1, <1>1, <1>5
<1>6. RegistryLive' /\ OwnIoContext'
  <2>1. Held \in SUBSET Held'
    OBVIOUS
  <2>2. RegistryLive'
    <3> SUFFICES ASSUME NEW c2 \in Services, NEW e2 \in Addresses, NEW n, n = registry[c2][e2],
                        n # Nil, local'[n].svc = c2
                 PROVE  n \in Held' /\ local'[n].ep = e2
      BY DEF RegistryLive
    <3> QED
      BY <2>1, <1>5 DEF MuxesInv, RegistryLive
  <2>3. OwnIoContext'
    <3> SUFFICES ASSUME ~CrossAssign, NEW c2 \in Services, NEW e2 \in Addresses, NEW n,
                        n = registry[c2][e2], n # Nil
                 PROVE  local'[n].svc = c2
      BY DEF OwnIoContext
    <3> QED
      BY <1>5 DEF MuxesInv, OwnIoContext
  <2> QED
    BY <2>2, <2>3
<1>7. PortsApart'
  <2>1. \A n \in Held' : n = m \/ (n \in Held /\ local'[n] = local[n])
    BY <1>3
  <2>2. ASSUME OwnPorts, NEW n \in Held PROVE local'[n].ep # ep
    <3>1. local[n].ep # ep
      BY <1>1, <2>2
    <3> QED
      BY <3>1, <1>3
  <2> QED
    BY <2>1, <2>2 DEF MuxesInv, PortsApart
<1>8. ASSUME OwnPorts PROVE Shareable'
  <2> SUFFICES ASSUME NEW n \in Held', local'[n].made
               PROVE  \E c2 \in Services : registry[c2][local'[n].ep] = n /\ (CrossAssign \/ local'[n].svc = c2)
    BY DEF Shareable
  <2>1. n \in Held /\ local'[n] = local[n]
    BY <1>3
  <2> QED
    BY <2>1, <1>8 DEF MuxesInv, Shareable
<1> QED
  BY <1>6, <1>7, <1>8 DEF MuxesInv

-----------------------------------------------------------------------------
(***************************************************************************)
(* The parts the actions share.                                            *)
(***************************************************************************)

LEMMA LinksEffect ==
  ASSUME NEW own \in [Impls -> Ref(Socks)], NEW mux \in [Impls -> Ref(Muxes)], Links(own, mux)
  PROVE  /\ owner' \in [Impls -> Ref(Socks)]
         /\ implMux' \in [Impls -> Ref(Muxes)]
         /\ \A i \in Impls : i \in open' => owner'[i] = own[i] /\ implMux'[i] = mux[i]
<1>1. Nil \in Ref(Socks) /\ Nil \in Ref(Muxes)
  BY DEF Ref
<1> QED
  BY <1>1 DEF Links

LEMMA SocketsType ==
  ASSUME NEW loc \in [Muxes -> UdpSockets], Sockets(loc)
  PROVE  local' \in [Muxes -> UdpSockets]
<1>1. NoUdpSocket \in UdpSockets
  BY DEF NoUdpSocket, UdpSockets, Ref
<1> QED
  BY <1>1 DEF Sockets

LEMMA EraseType ==
  ASSUME NEW reg \in [Services -> [Addresses -> Ref(Muxes)]], NEW dead
  PROVE  Erase(reg, dead) \in [Services -> [Addresses -> Ref(Muxes)]]
<1>1. Nil \in Ref(Muxes)
  BY DEF Ref
<1> QED
  BY <1>1 DEF Erase

\* What Release does when the open socket_impls keep their multiplexers.
LEMMA ReleaseEffect ==
  ASSUME TypeOK, MuxesInv,
         NEW sk \in [Socks -> Facades], NEW st \in [States -> Ref(Muxes)],
         NEW opn \in SUBSET Impls, NEW cn \in [Impls -> ConnStates],
         Release(sk, st, opn, cn),
         HeldBy(sk, st) \in SUBSET Held,
         \A i \in opn : implMux[i] \in HeldBy(sk, st)
  PROVE  /\ sock' = sk /\ state' = st /\ open' = opn
         /\ registry' \in [Services -> [Addresses -> Ref(Muxes)]]
         /\ conn' \in [Impls -> ConnStates]
         /\ local' \in [Muxes -> UdpSockets]
         /\ MuxesInv'
<1> DEFINE dead == Held \ HeldBy(sk, st)
<1>1. /\ sock' = sk /\ state' = st
      /\ registry' = Erase(registry, dead)
      /\ open' = opn \ Orphans(dead)
      /\ conn' = [i \in Impls |-> IF i \in Orphans(dead) THEN "none" ELSE cn[i]]
      /\ Sockets(local)
  BY DEF Release
<1>2. Held' = HeldBy(sk, st)
  BY <1>1 DEF Held
<1>3. open' = opn
  BY <1>1 DEF Orphans
<1>4. registry' \in [Services -> [Addresses -> Ref(Muxes)]]
  BY <1>1, EraseType DEF TypeOK
<1>5. local' \in [Muxes -> UdpSockets]
  BY <1>1, SocketsType DEF TypeOK
<1>6. conn' \in [Impls -> ConnStates]
  BY <1>1 DEF ConnStates
<1>7. MuxesInv'
  BY <1>1, <1>2, MuxesDropped
<1> QED
  BY <1>1, <1>3, <1>4, <1>5, <1>6, <1>7

LEMMA CloseConnType ==
  ASSUME TypeOK, NEW I
  PROVE  CloseConn(I) \in [Impls -> ConnStates]
BY DEF CloseConn, ConnStates, TypeOK

\* An open socket_impl and its socket.
LEMMA OpenImpl ==
  ASSUME TypeOK, SocksInv, NEW i \in open
  PROVE  /\ i \in Impls /\ i # Nil
         /\ owner[i] \in Socks
         /\ Alive(owner[i]) /\ sock[owner[i]].impl = i
         /\ sock[owner[i]].mux = implMux[i] /\ implMux[i] # Nil
         /\ \A f \in Socks : sock[f].impl = i => f = owner[i]
<1>1. i \in Impls /\ i # Nil
  BY NilAssumption DEF TypeOK
<1>2. PICK f \in Socks : /\ owner[i] = f
                         /\ Alive(f)
                         /\ sock[f].impl = i
                         /\ sock[f].mux = implMux[i] /\ implMux[i] # Nil
  BY DEF SocksInv, OwnerValid
<1>3. \A g \in Socks : sock[g].impl = i => g = f
  BY <1>1, <1>2 DEF SocksInv, ImplsApart
<1> QED
  BY <1>1, <1>2, <1>3

\* Steps that leave the sockets alone and open nothing.
LEMMA SocksSame ==
  ASSUME TypeOK, SocksInv, UNCHANGED sock, open' \in SUBSET open,
         \A i \in Impls : i \in open' => owner'[i] = owner[i] /\ implMux'[i] = implMux[i]
  PROVE  SocksInv'
<1>1. OwnerValid'
  <2> SUFFICES ASSUME NEW i \in open'
               PROVE  \E f \in Socks : /\ owner'[i] = f
                                       /\ sock'[f].svc # Nil
                                       /\ sock'[f].impl = i
                                       /\ sock'[f].mux = implMux'[i] /\ implMux'[i] # Nil
    BY DEF OwnerValid, Alive
  <2>1. i \in open
    OBVIOUS
  <2>2. i \in Impls
    BY <2>1, OpenImpl
  <2> QED
    BY <2>1, <2>2, OpenImpl DEF Alive
<1> QED
  BY <1>1 DEF SocksInv, ImplsApart, SocksSound

LEMMA UmuxesSame ==
  ASSUME UmuxesInv, UNCHANGED <<umux, state>>, fault' = fault \/ fault' = "moved_from"
  PROVE  UmuxesInv'
BY DEF UmuxesInv, StatesApart, StatesOwned, NoneExpired

-----------------------------------------------------------------------------
(***************************************************************************)
(* The actions of sockets.                                                 *)
(***************************************************************************)

LEMMA InitIInv == Init => IInv
<1> SUFFICES ASSUME Init PROVE IInv
  OBVIOUS
<1>1. TypeOK
  BY DEF Init, TypeOK, Facades, NoFacade, Ref, ConnStates, UdpSockets, NoUdpSocket
<1>2. Held = {}
  BY DEF Init, Held, HeldBy, NoFacade
<1>3. SocksInv
  BY DEF Init, SocksInv, OwnerValid, ImplsApart, SocksSound, NoFacade
<1>4. MuxesInv
  BY <1>2 DEF Init, MuxesInv, RegistryLive, PortsApart, Shareable, OwnIoContext
<1>5. UmuxesInv
  BY DEF Init, UmuxesInv, StatesApart, StatesOwned, NoneExpired
<1> QED
  BY <1>1, <1>3, <1>4, <1>5 DEF IInv

LEMMA NewSocketStep ==
  ASSUME IInv, NEW f \in Socks, NEW c \in Services, NewSocket(f, c)
  PROVE  IInv'
<1> USE DEF IInv
<1>0. c # Nil
  BY NilAssumption
<1> DEFINE r == [NoFacade EXCEPT !.svc = c, !.ex = c]
<1>1. /\ sock' = [sock EXCEPT ![f] = r]
      /\ sock[f] = NoFacade
      /\ UNCHANGED <<implVars, umux, state, local, registry, fault>>
  BY DEF NewSocket
<1>2. r \in Facades /\ r.svc = c /\ r.ex = c /\ r.impl = Nil /\ r.mux = Nil
  BY DEF Facades, NoFacade, Ref
<1> HIDE DEF r
<1>3. TypeOK'
  BY <1>1, <1>2 DEF TypeOK, implVars
<1>4. \A g \in Socks : /\ sock'[g].impl = sock[g].impl /\ sock'[g].mux = sock[g].mux
                       /\ sock'[g].svc = sock[g].svc \/ g = f
                       /\ g # f => sock'[g] = sock[g]
  BY <1>1, <1>2 DEF TypeOK, NoFacade
<1>5. Held' = Held
  BY <1>1, <1>4 DEF Held, HeldBy
<1>6. OwnerValid'
  <2> SUFFICES ASSUME NEW i \in open
               PROVE  \E g \in Socks : /\ owner[i] = g
                                       /\ sock'[g].svc # Nil
                                       /\ sock'[g].impl = i
                                       /\ sock'[g].mux = implMux[i] /\ implMux[i] # Nil
    BY <1>1 DEF OwnerValid, Alive, implVars
  <2>1. owner[i] # f
    BY <1>1, OpenImpl DEF Alive, NoFacade
  <2> QED
    BY <2>1, <1>4, OpenImpl DEF Alive
<1>7. SocksInv'
  <2>1. ImplsApart'
    BY <1>4 DEF SocksInv, ImplsApart
  <2>2. sock'[f].svc = c /\ sock'[f].ex = c
    BY <1>1, <1>2 DEF TypeOK
  <2>3. SocksSound'
    BY <1>0, <1>4, <2>2 DEF SocksInv, SocksSound
  <2> QED
    BY <1>6, <2>1, <2>3 DEF SocksInv
<1> QED
  BY <1>1, <1>3, <1>5, <1>7, MuxesSame, UmuxesSame

\* The end of bind.
LEMMA AttachEffect ==
  ASSUME TypeOK, SocksInv, NEW f \in Socks, Alive(f), sock[f].impl = Nil,
         NEW m \in Muxes, NEW i \in Impls,
         NEW reg \in [Services -> [Addresses -> Ref(Muxes)]], NEW loc \in [Muxes -> UdpSockets],
         Attach(f, m, i, reg, loc), UNCHANGED fault
  PROVE  /\ TypeOK' /\ SocksInv'
         /\ m \in Held' /\ Held' \in SUBSET (Held \cup {m})
         /\ registry' = Erase(reg, Held \ Held')
         /\ Sockets(loc)
         /\ UNCHANGED <<umux, state>>
<1> DEFINE sk == [sock EXCEPT ![f].impl = i, ![f].mux = m]
           dead == Held \ HeldBy(sk, state)
<1>0. i # Nil /\ m # Nil
  BY NilAssumption
<1>1. /\ FreeImpl(i)
      /\ sock' = sk
      /\ open' = (open \ Orphans(dead)) \cup {i}
      /\ conn' = [j \in Impls |-> IF j \in Orphans(dead) THEN "none" ELSE conn[j]]
      /\ Links([owner EXCEPT ![i] = f], [implMux EXCEPT ![i] = m])
      /\ registry' = Erase(reg, dead)
      /\ UNCHANGED <<umux, state>>
      /\ Sockets(loc)
  BY DEF Attach
<1>2. /\ sk \in [Socks -> Facades]
      /\ sk[f].impl = i /\ sk[f].mux = m
      /\ sk[f].svc = sock[f].svc /\ sk[f].ex = sock[f].ex
      /\ \A g \in Socks : g # f => sk[g] = sock[g]
  <2> DEFINE r == [sock[f] EXCEPT !.impl = i, !.mux = m]
  <2>1. sk = [sock EXCEPT ![f] = r]
    BY DEF TypeOK
  <2>2. sock[f] \in Facades /\ i \in Ref(Impls) /\ m \in Ref(Muxes)
    BY DEF TypeOK, Ref
  <2>3. /\ r \in Facades
        /\ r.impl = i /\ r.mux = m /\ r.svc = sock[f].svc /\ r.ex = sock[f].ex
    BY <2>2 DEF Facades
  <2> HIDE DEF r, sk
  <2> QED
    BY <2>1, <2>3 DEF TypeOK
<1> HIDE DEF sk
<1>3. Held' = HeldBy(sk, state)
  BY <1>1 DEF Held
<1>4. m \in Held'
  BY <1>0, <1>2, <1>3, HeldByIs
<1>5. Held' \in SUBSET (Held \cup {m})
  <2> SUFFICES ASSUME NEW n \in Held', n # m PROVE n \in Held
    OBVIOUS
  <2>1. n # Nil /\ ((\E g \in Socks : sk[g].mux = n) \/ (\E s \in States : state[s] = n))
    BY <1>3, HeldByIs
  <2>2. n # Nil /\ ((\E g \in Socks : sock[g].mux = n) \/ (\E s \in States : state[s] = n))
    BY <1>2, <2>1
  <2> QED
    BY <2>2, HeldByIs DEF Held
<1>6. i \notin open /\ \A g \in Socks : sock[g].impl # i
  BY <1>1 DEF FreeImpl
<1>7. \A j \in open : j \notin Orphans(dead) /\ owner[j] # f /\ j # i
  <2> TAKE j \in open
  <2>1. owner[j] # f
    BY OpenImpl, NilAssumption
  <2>2. sk[owner[j]].mux = implMux[j] /\ implMux[j] # Nil
    BY <2>1, <1>2, OpenImpl
  <2>3. implMux[j] \in HeldBy(sk, state)
    BY <2>2, OpenImpl, HeldByIs
  <2> QED
    BY <2>1, <2>3, <1>6 DEF Orphans
<1>8. open' = open \cup {i}
  BY <1>1, <1>7
<1>9. /\ owner' \in [Impls -> Ref(Socks)]
      /\ implMux' \in [Impls -> Ref(Muxes)]
      /\ \A j \in Impls : j \in open' =>
            /\ owner'[j] = IF j = i THEN f ELSE owner[j]
            /\ implMux'[j] = IF j = i THEN m ELSE implMux[j]
  <2>1. /\ [owner EXCEPT ![i] = f] \in [Impls -> Ref(Socks)]
        /\ [implMux EXCEPT ![i] = m] \in [Impls -> Ref(Muxes)]
    BY DEF TypeOK, Ref
  <2>2. /\ \A j \in Impls : [owner EXCEPT ![i] = f][j] = IF j = i THEN f ELSE owner[j]
        /\ \A j \in Impls : [implMux EXCEPT ![i] = m][j] = IF j = i THEN m ELSE implMux[j]
    BY DEF TypeOK
  <2> QED
    BY <2>1, <2>2, <1>1, LinksEffect
<1>10. TypeOK'
  <2>1. registry' \in [Services -> [Addresses -> Ref(Muxes)]]
    BY <1>1, EraseType
  <2>2. local' \in [Muxes -> UdpSockets]
    BY <1>1, SocketsType
  <2>3. conn' \in [Impls -> ConnStates] /\ open' \subseteq Impls
    BY <1>1, <1>8 DEF TypeOK, ConnStates
  <2> QED
    BY <1>1, <1>2, <1>9, <2>1, <2>2, <2>3 DEF TypeOK
<1>11. SocksInv'
  <2>1. OwnerValid'
    <3> SUFFICES ASSUME NEW j \in open'
                 PROVE  \E g \in Socks : /\ owner'[j] = g
                                         /\ sk[g].svc # Nil
                                         /\ sk[g].impl = j
                                         /\ sk[g].mux = implMux'[j] /\ implMux'[j] # Nil
      BY <1>1 DEF OwnerValid, Alive
    <3>1. CASE j = i
      BY <3>1, <1>0, <1>2, <1>9 DEF Alive
    <3>2. CASE j # i
      <4>1. j \in open /\ j \in Impls
        BY <3>2, <1>8, OpenImpl
      <4>2. owner'[j] = owner[j] /\ implMux'[j] = implMux[j] /\ owner[j] # f
        BY <4>1, <3>2, <1>7, <1>9
      <4> QED
        BY <4>1, <4>2, <1>2, OpenImpl DEF Alive
    <3> QED
      BY <3>1, <3>2
  <2>2. ImplsApart'
    BY <1>1, <1>2, <1>6 DEF SocksInv, ImplsApart
  <2>3. SocksSound'
    BY <1>1, <1>2 DEF SocksInv, SocksSound, Alive
  <2> QED
    BY <2>1, <2>2, <2>3 DEF SocksInv
<1> QED
  BY <1>1, <1>3, <1>4, <1>5, <1>10, <1>11

LEMMA BindSharedStep ==
  ASSUME IInv, NEW f \in Socks, NEW e \in Addresses, NEW m \in Muxes, NEW i \in Impls,
         BindShared(f, e, m, i)
  PROVE  IInv'
<1> USE DEF IInv
<1>1. /\ Alive(f) /\ sock[f].impl = Nil /\ m \in Held
      /\ Attach(f, m, i, registry, local) /\ UNCHANGED fault
  BY DEF BindShared
<1>2. /\ registry \in [Services -> [Addresses -> Ref(Muxes)]]
      /\ local \in [Muxes -> UdpSockets]
  BY DEF TypeOK
<1>3. /\ TypeOK' /\ SocksInv'
      /\ Held' \in SUBSET (Held \cup {m})
      /\ registry' = Erase(registry, Held \ Held')
      /\ Sockets(local)
      /\ UNCHANGED <<umux, state>>
  BY <1>1, <1>2, AttachEffect
<1>4. MuxesInv'
  BY <1>1, <1>3, MuxesDropped
<1> QED
  BY <1>1, <1>3, <1>4, UmuxesSame

LEMMA BindToStep ==
  ASSUME IInv, NEW f \in Socks, NEW u \in Umuxes, NEW i \in Impls, BindTo(f, u, i)
  PROVE  IInv'
<1> USE DEF IInv
<1>1. /\ Alive(f) /\ sock[f].impl = Nil /\ umux[u] # Nil /\ state[umux[u]] # Nil
      /\ Attach(f, state[umux[u]], i, registry, local) /\ UNCHANGED fault
  BY DEF BindTo
<1>2. /\ registry \in [Services -> [Addresses -> Ref(Muxes)]]
      /\ local \in [Muxes -> UdpSockets]
      /\ umux[u] \in States
  BY <1>1 DEF TypeOK, Ref
<1>3. PICK m \in Muxes : m = state[umux[u]] /\ m \in Held
  BY <1>1, <1>2, HeldTypes
<1>4. /\ TypeOK' /\ SocksInv'
      /\ Held' \in SUBSET (Held \cup {m})
      /\ registry' = Erase(registry, Held \ Held')
      /\ Sockets(local)
      /\ UNCHANGED <<umux, state>>
  BY <1>1, <1>2, <1>3, AttachEffect
<1>5. MuxesInv'
  BY <1>3, <1>4, MuxesDropped
<1> QED
  BY <1>1, <1>4, <1>5, UmuxesSame

LEMMA BindNewStep ==
  ASSUME IInv, NEW f \in Socks, NEW e \in Addresses, NEW ep \in Endpoints, NEW m \in Muxes,
         NEW i \in Impls, BindNew(f, e, ep, m, i)
  PROVE  IInv'
<1> USE DEF IInv
<1>0. sock[f] \in Facades /\ Alive(f) /\ sock[f].impl = Nil /\ UNCHANGED fault
  BY DEF BindNew, TypeOK
<1>1. PICK c \in Services, x \in Ref(Services) :
         c = sock[f].svc /\ x = sock[f].ex /\ (CrossAssign \/ x = c)
  BY <1>0 DEF Facades, Ref, Alive, SocksInv, SocksSound
<1> DEFINE reg == Register(c, e, ep, m)
           loc == NewMux(x, ep, m, TRUE)
<1>2. Creates(c, e, ep, m) /\ Attach(f, m, i, reg, loc)
  BY <1>1 DEF BindNew
<1>3. reg \in [Services -> [Addresses -> Ref(Muxes)]]
  BY RegisterEffect
<1>4. loc \in [Muxes -> UdpSockets]
  <2>1. [svc |-> x, ep |-> ep, made |-> TRUE] \in UdpSockets
    BY DEF UdpSockets, Ref
  <2> QED
    BY <2>1 DEF NewMux, TypeOK
<1> HIDE DEF reg, loc
<1>5. /\ TypeOK' /\ SocksInv'
      /\ m \in Held' /\ Held' \in SUBSET (Held \cup {m})
      /\ registry' = Erase(reg, Held \ Held')
      /\ Sockets(loc)
      /\ UNCHANGED <<umux, state>>
  BY <1>0, <1>2, <1>3, <1>4, AttachEffect
<1>6. MuxesInv'
  <2>1. \A c2 \in Services, e2 \in Addresses :
            registry'[c2][e2] = IF \E d \in Held \ Held' : local[d].svc = c2 /\ local[d].ep = e2
                                THEN Nil ELSE Register(c, e, ep, m)[c2][e2]
    BY <1>5, EraseEffect DEF reg
  <2>2. local'[m] = loc[m]
    BY <1>5 DEF Sockets, Held
  <2>3. local'[m].svc = x /\ local'[m].ep = ep /\ local'[m].made
    BY <2>2 DEF loc, NewMux, TypeOK
  <2>4. \A n \in Muxes : n # m =>
            (n \in Held' \/ (\E c2 \in Services, e2 \in Addresses : registry'[c2][e2] = n)
                => local'[n] = local[n])
    <3>1. \A n \in Muxes : n # m => loc[n] = local[n]
      BY DEF loc, NewMux, TypeOK
    <3> QED
      BY <3>1, <1>5 DEF Sockets, Held
  <2>5. TypeOK /\ MuxesInv
    OBVIOUS
  <2>6. Creates(c, e, ep, m)
    BY <1>2
  <2>7. m \in Held' /\ Held' \in SUBSET (Held \cup {m})
    BY <1>5
  <2>8. CrossAssign \/ x = c
    BY <1>1
  <2> HIDE DEF IInv
  <2> QED
    BY <2>1, <2>3, <2>4, <2>5, <2>6, <2>7, <2>8, MuxesCreated
<1> QED
  BY <1>0, <1>5, <1>6, UmuxesSame

LEMMA BindExpiredStep ==
  ASSUME IInv, NEW f \in Socks, NEW e \in Addresses, NEW m \in Muxes, BindExpired(f, e, m)
  PROVE  IInv'
<1> USE DEF IInv
<1>1. /\ Alive(f) /\ registry[sock[f].svc][e] = m /\ m # Nil /\ m \notin Held
      /\ fault' = "null_multiplexer"
      /\ UNCHANGED <<sock, owner, open, conn, implMux, umux, state, local, registry>>
  BY DEF BindExpired, Found, implVars
<1>2. sock[f].svc \in Services
  BY <1>1 DEF Alive, TypeOK, Facades, Ref
<1>3. CrossAssign
  BY <1>1, <1>2 DEF MuxesInv, OwnIoContext, RegistryLive
<1>4. TypeOK'
  BY <1>1 DEF TypeOK
<1>5. SocksInv'
  BY <1>1, SocksSame
<1>6. MuxesInv'
  BY <1>1, MuxesSame DEF Held
<1>7. UmuxesInv'
  BY <1>1, <1>3 DEF UmuxesInv, StatesApart, StatesOwned, NoneExpired
<1> QED
  BY <1>4, <1>5, <1>6, <1>7

LEMMA BindToExpiredStep ==
  ASSUME IInv, NEW f \in Socks, NEW u \in Umuxes, BindToExpired(f, u)
  PROVE  IInv'
<1> USE DEF IInv
<1>1. /\ umux[u] # Nil /\ state[umux[u]] = Nil
      /\ fault' = "null_multiplexer"
      /\ UNCHANGED <<sock, owner, open, conn, implMux, umux, state, local, registry>>
  BY DEF BindToExpired, implVars
<1>2. CrossAssign
  BY <1>1 DEF UmuxesInv, NoneExpired
<1>3. TypeOK'
  BY <1>1 DEF TypeOK
<1>4. SocksInv'
  BY <1>1, SocksSame
<1>5. MuxesInv'
  BY <1>1, MuxesSame DEF Held
<1>6. UmuxesInv'
  BY <1>1, <1>2 DEF UmuxesInv, StatesApart, StatesOwned, NoneExpired
<1> QED
  BY <1>3, <1>4, <1>5, <1>6

\* Connections that come and go.
LEMMA ConnStep ==
  ASSUME IInv, conn' \in [Impls -> ConnStates], open' \in SUBSET open,
         owner' \in [Impls -> Ref(Socks)], implMux' \in [Impls -> Ref(Muxes)],
         \A i \in Impls : i \in open' => owner'[i] = owner[i] /\ implMux'[i] = implMux[i],
         UNCHANGED <<sock, umux, state, local, registry, fault>>
  PROVE  IInv'
<1> USE DEF IInv
<1>1. TypeOK'
  BY DEF TypeOK
<1>2. SocksInv'
  BY SocksSame
<1>3. MuxesInv'
  BY MuxesSame DEF Held
<1> QED
  BY <1>1, <1>2, <1>3, UmuxesSame

LEMMA ConnectStep ==
  ASSUME IInv, NEW i \in Impls, Connect(i) \/ OnEof(i) \/ OnDestroy(i)
  PROVE  IInv'
<1>1. /\ conn' \in [Impls -> ConnStates] /\ UNCHANGED open
      /\ UNCHANGED <<sock, umux, state, local, registry, fault>>
      /\ UNCHANGED <<owner, implMux>> \/ Links(owner, implMux)
  BY DEF IInv, TypeOK, ConnStates, Connect, OnEof, OnDestroy
<1>2. /\ owner' \in [Impls -> Ref(Socks)] /\ implMux' \in [Impls -> Ref(Muxes)]
      /\ \A j \in Impls : j \in open' => owner'[j] = owner[j] /\ implMux'[j] = implMux[j]
  BY <1>1, LinksEffect DEF IInv, TypeOK
<1> QED
  BY <1>1, <1>2, ConnStep

LEMMA ReadEofStep ==
  ASSUME IInv, NEW f \in Socks, ReadEof(f)
  PROVE  IInv'
<1>1. /\ open' \in SUBSET open
      /\ Links(owner, implMux)
      /\ UNCHANGED <<sock, conn, umux, state, local, registry, fault>>
  BY DEF ReadEof
<1>2. /\ owner' \in [Impls -> Ref(Socks)] /\ implMux' \in [Impls -> Ref(Muxes)]
      /\ \A j \in Impls : j \in open' => owner'[j] = owner[j] /\ implMux'[j] = implMux[j]
  BY <1>1, LinksEffect DEF IInv, TypeOK
<1>3. conn' \in [Impls -> ConnStates]
  BY <1>1 DEF IInv, TypeOK
<1> QED
  BY <1>1, <1>2, <1>3, ConnStep

\* The socket f takes over what g has, or nothing when it is closed, and g
\* has nothing: how the open socket_impls are owned then.
LEMMA AdoptEffect ==
  ASSUME TypeOK, NEW i \in Ref(Impls), NEW f \in Socks
  PROVE  /\ Adopt(i, f) \in [Impls -> Ref(Socks)]
         /\ \A j \in Impls : Adopt(i, f)[j] = IF j = i THEN f ELSE owner[j]
<1>1. f \in Ref(Socks) /\ Nil \notin Impls
  BY NilAssumption DEF Ref
<1>2. CASE i = Nil
  BY <1>1, <1>2 DEF Adopt, TypeOK
<1>3. CASE i # Nil
  BY <1>1, <1>3 DEF Adopt, TypeOK, Ref
<1> QED
  BY <1>2, <1>3

LEMMA SocksMoved ==
  ASSUME TypeOK, SocksInv, NEW f \in Socks, NEW g \in Socks, f # g, Alive(g),
         sock'[f].impl = sock[g].impl, sock'[f].mux = sock[g].mux,
         sock'[f].svc # Nil, CrossAssign \/ sock'[f].ex = sock'[f].svc,
         sock'[g].impl = Nil, sock'[g].mux = Nil,
         sock'[g].svc = sock[g].svc, sock'[g].ex = sock[g].ex,
         \A h \in Socks : h # f /\ h # g => sock'[h] = sock[h],
         open' \in SUBSET open, sock[f].impl \notin open',
         \A j \in Impls : j \in open' =>
            /\ owner'[j] = IF j = sock[g].impl THEN f ELSE owner[j]
            /\ implMux'[j] = implMux[j]
  PROVE  SocksInv'
<1>1. OwnerValid'
  <2> SUFFICES ASSUME NEW j \in open'
               PROVE  \E h \in Socks : /\ owner'[j] = h
                                       /\ sock'[h].svc # Nil
                                       /\ sock'[h].impl = j
                                       /\ sock'[h].mux = implMux'[j] /\ implMux'[j] # Nil
    BY DEF OwnerValid, Alive
  <2>1. j \in open
    OBVIOUS
  <2>2. j \in Impls /\ implMux'[j] = implMux[j] /\ implMux[j] # Nil
    BY <2>1, OpenImpl
  <2>3. CASE j = sock[g].impl
    <3>1. owner[j] = g /\ owner'[j] = f
      BY <2>1, <2>2, <2>3, OpenImpl
    <3>2. sock[g].mux = implMux[j]
      BY <2>1, <3>1, OpenImpl
    <3> QED
      BY <2>2, <2>3, <3>1, <3>2
  <2>4. CASE j # sock[g].impl
    <3> DEFINE h == owner[j]
    <3>1. /\ owner'[j] = h /\ h \in Socks /\ h # f /\ h # g
          /\ Alive(h) /\ sock[h].impl = j /\ sock[h].mux = implMux[j]
      BY <2>1, <2>2, <2>4, OpenImpl
    <3> HIDE DEF h
    <3>2. sock'[h] = sock[h]
      BY <3>1
    <3> QED
      BY <2>2, <3>1, <3>2 DEF Alive
  <2> QED
    BY <2>3, <2>4
<1>2. ImplsApart'
  BY DEF SocksInv, ImplsApart
<1>3. SocksSound'
  BY DEF SocksInv, SocksSound, Alive
<1> QED
  BY <1>1, <1>2, <1>3 DEF SocksInv

LEMMA MoveConstructStep ==
  ASSUME IInv, NEW f \in Socks, NEW g \in Socks, MoveConstruct(f, g)
  PROVE  IInv'
<1> USE DEF IInv
<1> DEFINE sk == [sock EXCEPT ![f] = sock[g], ![g].impl = Nil, ![g].mux = Nil]
<1>1. /\ sock[f] = NoFacade /\ Alive(g)
      /\ sock' = sk
      /\ UNCHANGED <<open, conn>>
      /\ Links(Adopt(sock[g].impl, f), implMux)
      /\ UNCHANGED <<umux, state, local, registry, fault>>
  BY DEF MoveConstruct
<1>2. f # g /\ sock[f].impl = Nil /\ sock[f].mux = Nil
  BY <1>1 DEF Alive, NoFacade
<1>3. sock[g] \in Facades /\ sock[g].impl \in Ref(Impls)
  BY DEF TypeOK, Facades
<1> DEFINE r == [sock[g] EXCEPT !.impl = Nil, !.mux = Nil]
<1>4. sk = [sock EXCEPT ![f] = sock[g], ![g] = r]
  BY <1>2 DEF TypeOK
<1>5. /\ r \in Facades /\ r.impl = Nil /\ r.mux = Nil
      /\ r.svc = sock[g].svc /\ r.ex = sock[g].ex
  BY <1>3 DEF Facades, Ref
<1> HIDE DEF sk, r
<1>6. /\ sk \in [Socks -> Facades]
      /\ sk[f] = sock[g] /\ sk[g] = r
      /\ \A h \in Socks : h # f /\ h # g => sk[h] = sock[h]
  BY <1>2, <1>3, <1>4, <1>5 DEF TypeOK
<1>7. /\ owner' \in [Impls -> Ref(Socks)]
      /\ implMux' \in [Impls -> Ref(Muxes)]
      /\ \A j \in Impls : j \in open' =>
            /\ owner'[j] = IF j = sock[g].impl THEN f ELSE owner[j]
            /\ implMux'[j] = implMux[j]
  <2>1. implMux \in [Impls -> Ref(Muxes)]
    BY DEF TypeOK
  <2>2. /\ Adopt(sock[g].impl, f) \in [Impls -> Ref(Socks)]
        /\ \A j \in Impls : Adopt(sock[g].impl, f)[j] = IF j = sock[g].impl THEN f ELSE owner[j]
    BY <1>3, AdoptEffect
  <2> QED
    BY <2>1, <2>2, <1>1, LinksEffect
<1>8. TypeOK'
  BY <1>1, <1>6, <1>7 DEF TypeOK
<1>9. Held' = Held
  <2>1. \A n : (\E h \in Socks : sk[h].mux = n) /\ n # Nil => \E h \in Socks : sock[h].mux = n
    BY <1>5, <1>6
  <2>2. \A n : (\E h \in Socks : sock[h].mux = n) /\ n # Nil => \E h \in Socks : sk[h].mux = n
    BY <1>2, <1>6
  <2> QED
    BY <1>1, <2>1, <2>2 DEF Held, HeldBy
<1>10. SocksInv'
  <2>1. Nil \notin open
    BY NilAssumption DEF TypeOK
  <2>2. sock[g].svc # Nil /\ (CrossAssign \/ sock[g].ex = sock[g].svc)
    BY <1>1 DEF SocksInv, SocksSound, Alive
  <2> QED
    BY <1>1, <1>2, <1>5, <1>6, <1>7, <2>1, <2>2, SocksMoved
<1> QED
  BY <1>1, <1>8, <1>9, <1>10, MuxesSame, UmuxesSame

LEMMA MoveAssignStep ==
  ASSUME IInv, NEW f \in Socks, NEW g \in Socks, MoveAssign(f, g)
  PROVE  IInv'
<1> USE DEF IInv
<1> DEFINE r == [Closed(f) EXCEPT !.ex = sock[g].ex, !.impl = sock[g].impl, !.mux = sock[g].mux]
           q == [sock[g] EXCEPT !.impl = Nil, !.mux = Nil]
           sk == [sock EXCEPT ![f] = r, ![g].impl = Nil, ![g].mux = Nil]
           I == {sock[f].impl} \ {Nil}
<1>1. /\ f # g /\ Alive(f) /\ Alive(g)
      /\ CrossAssign \/ sock[f].svc = sock[g].ex
      /\ Release(sk, state, open \ I, CloseConn(I))
      /\ Links(Adopt(sock[g].impl, f), implMux)
      /\ UNCHANGED umux
  BY DEF MoveAssign
<1>2. fault' = fault \/ fault' = "moved_from"
  BY DEF MoveAssign
<1>3. /\ sock[g] \in Facades /\ sock[g].impl \in Ref(Impls)
      /\ sock[f] \in Facades
  BY DEF TypeOK, Facades
<1>4. Closed(f) \in Facades /\ Closed(f).svc = sock[f].svc
  BY <1>3 DEF Closed, Facades, Ref
<1>5. /\ r \in Facades /\ r.impl = sock[g].impl /\ r.mux = sock[g].mux
      /\ r.svc = sock[f].svc /\ r.ex = sock[g].ex
  BY <1>3, <1>4 DEF Facades
<1>6. /\ q \in Facades /\ q.impl = Nil /\ q.mux = Nil
      /\ q.svc = sock[g].svc /\ q.ex = sock[g].ex
  BY <1>3 DEF Facades, Ref
<1>7. sk = [sock EXCEPT ![f] = r, ![g] = q]
  BY <1>1 DEF TypeOK
<1> HIDE DEF sk, r, q
<1>8. /\ sk \in [Socks -> Facades]
      /\ sk[f] = r /\ sk[g] = q
      /\ \A h \in Socks : h # f /\ h # g => sk[h] = sock[h]
  BY <1>1, <1>5, <1>6, <1>7 DEF TypeOK
<1>9. HeldBy(sk, state) \in SUBSET Held
  <2>1. \A n : (\E h \in Socks : sk[h].mux = n) /\ n # Nil => \E h \in Socks : sock[h].mux = n
    BY <1>5, <1>6, <1>8
  <2> QED
    BY <2>1 DEF Held, HeldBy
<1>10. \A j \in open \ I : implMux[j] \in HeldBy(sk, state)
  <2> TAKE j \in open \ I
  <2>1. j \in open /\ j # sock[f].impl
    BY OpenImpl
  <2>2. owner[j] \in Socks /\ owner[j] # f /\ sock[owner[j]].mux = implMux[j] /\ implMux[j] # Nil
    BY <2>1, OpenImpl
  <2>3. \E h \in Socks : sk[h].mux = implMux[j]
    BY <2>2, <1>5, <1>8
  <2> QED
    BY <2>2, <2>3, HeldByIs
<1>11. /\ sock' = sk /\ state' = state /\ open' = open \ I
       /\ registry' \in [Services -> [Addresses -> Ref(Muxes)]]
       /\ conn' \in [Impls -> ConnStates]
       /\ local' \in [Muxes -> UdpSockets]
       /\ MuxesInv'
  <2>1. open \ I \in SUBSET Impls /\ state \in [States -> Ref(Muxes)]
    BY DEF TypeOK
  <2>2. CloseConn(I) \in [Impls -> ConnStates]
    BY CloseConnType
  <2> HIDE DEF I
  <2> QED
    BY <2>1, <2>2, <1>1, <1>8, <1>9, <1>10, ReleaseEffect
<1>12. /\ owner' \in [Impls -> Ref(Socks)]
      /\ implMux' \in [Impls -> Ref(Muxes)]
      /\ \A j \in Impls : j \in open' =>
            /\ owner'[j] = IF j = sock[g].impl THEN f ELSE owner[j]
            /\ implMux'[j] = implMux[j]
  <2>1. implMux \in [Impls -> Ref(Muxes)]
    BY DEF TypeOK
  <2>2. /\ Adopt(sock[g].impl, f) \in [Impls -> Ref(Socks)]
        /\ \A j \in Impls : Adopt(sock[g].impl, f)[j] = IF j = sock[g].impl THEN f ELSE owner[j]
    BY <1>3, AdoptEffect
  <2> QED
    BY <2>1, <2>2, <1>1, LinksEffect
<1>13. TypeOK'
  BY <1>1, <1>2, <1>8, <1>11, <1>12 DEF TypeOK
<1>14. SocksInv'
  <2>1. sock[f].impl \notin open' /\ open' \in SUBSET open
    BY <1>11, NilAssumption DEF TypeOK
  <2>2. sock[f].svc # Nil /\ (CrossAssign \/ r.ex = r.svc)
    BY <1>1, <1>5 DEF Alive
  <2> QED
    BY <1>1, <1>5, <1>6, <1>8, <1>11, <1>12, <2>1, <2>2, SocksMoved
<1>15. UmuxesInv'
  BY <1>1, <1>2, <1>11, UmuxesSame
<1> QED
  BY <1>11, <1>13, <1>14, <1>15

LEMMA CloseSocketStep ==
  ASSUME IInv, NEW f \in Socks, NEW gone \in BOOLEAN, CloseSocket(f, gone)
  PROVE  IInv'
<1> USE DEF IInv
<1>0. PICK r : r = IF gone THEN NoFacade ELSE Closed(f)
  OBVIOUS
<1> DEFINE sk == [sock EXCEPT ![f] = r]
           I == {sock[f].impl} \ {Nil}
<1>1. /\ Alive(f)
      /\ Release(sk, state, open \ I, CloseConn(I))
      /\ Links(owner, implMux)
      /\ UNCHANGED <<umux, fault>>
  BY <1>0 DEF CloseSocket
<1>2. sock[f] \in Facades /\ NoFacade \in Facades
  BY DEF TypeOK, Facades, NoFacade, Ref
<1>3. /\ r \in Facades /\ r.impl = Nil
      /\ r.mux = Nil \/ r.mux = sock[f].mux
      /\ r = NoFacade \/ (r.svc = sock[f].svc /\ r.ex = sock[f].ex)
  <2>1. CASE r = NoFacade
    BY <2>1, <1>2 DEF NoFacade
  <2>2. CASE r = Closed(f) /\ sock[f].impl = Nil
    BY <2>2, <1>2 DEF Closed
  <2>3. CASE r = Closed(f) /\ sock[f].impl # Nil
    BY <2>3, <1>2 DEF Closed, Facades, Ref
  <2> QED
    BY <1>0, <2>1, <2>2, <2>3
<1>4. /\ sk \in [Socks -> Facades] /\ sk[f] = r
      /\ \A h \in Socks : h # f => sk[h] = sock[h]
  BY <1>3 DEF TypeOK
<1> HIDE DEF sk
<1>5. HeldBy(sk, state) \in SUBSET Held
  <2>1. \A n : (\E h \in Socks : sk[h].mux = n) /\ n # Nil => \E h \in Socks : sock[h].mux = n
    BY <1>3, <1>4
  <2> QED
    BY <2>1 DEF Held, HeldBy
<1>6. ASSUME NEW j \in open \ I
      PROVE  owner[j] # f /\ implMux[j] \in HeldBy(sk, state)
  <2>1. j \in open /\ j # sock[f].impl
    BY OpenImpl
  <2>2. owner[j] \in Socks /\ owner[j] # f /\ sock[owner[j]].mux = implMux[j] /\ implMux[j] # Nil
    BY <2>1, OpenImpl
  <2>3. \E h \in Socks : sk[h].mux = implMux[j]
    BY <2>2, <1>4
  <2> QED
    BY <2>2, <2>3, HeldByIs
<1>7. /\ sock' = sk /\ state' = state /\ open' = open \ I
      /\ registry' \in [Services -> [Addresses -> Ref(Muxes)]]
      /\ conn' \in [Impls -> ConnStates]
      /\ local' \in [Muxes -> UdpSockets]
      /\ MuxesInv'
  <2>1. open \ I \in SUBSET Impls /\ state \in [States -> Ref(Muxes)]
    BY DEF TypeOK
  <2>2. CloseConn(I) \in [Impls -> ConnStates]
    BY CloseConnType
  <2> HIDE DEF I
  <2> QED
    BY <2>1, <2>2, <1>1, <1>4, <1>5, <1>6, ReleaseEffect
<1>8. /\ owner' \in [Impls -> Ref(Socks)] /\ implMux' \in [Impls -> Ref(Muxes)]
      /\ \A j \in Impls : j \in open' => owner'[j] = owner[j] /\ implMux'[j] = implMux[j]
  BY <1>1, LinksEffect DEF TypeOK
<1>9. TypeOK'
  BY <1>1, <1>4, <1>7, <1>8 DEF TypeOK
<1>10. SocksInv'
  <2>1. OwnerValid'
    <3> SUFFICES ASSUME NEW j \in open \ I
                 PROVE  \E h \in Socks : /\ owner'[j] = h
                                         /\ sock'[h].svc # Nil
                                         /\ sock'[h].impl = j
                                         /\ sock'[h].mux = implMux'[j] /\ implMux'[j] # Nil
      BY <1>7 DEF OwnerValid, Alive
    <3>1. j \in open /\ owner[j] # f
      BY <1>6
    <3>2. j \in Impls /\ owner'[j] = owner[j] /\ implMux'[j] = implMux[j]
      BY <3>1, <1>7, <1>8, OpenImpl
    <3>3. owner[j] \in Socks /\ sock'[owner[j]] = sock[owner[j]]
      BY <3>1, <1>4, <1>7, OpenImpl
    <3> QED
      BY <3>1, <3>2, <3>3, OpenImpl DEF Alive
  <2>2. ImplsApart'
    BY <1>3, <1>4, <1>7 DEF SocksInv, ImplsApart
  <2>3. SocksSound'
    <3>1. r.svc = Nil => r = NoFacade
      BY <1>1, <1>3 DEF Alive
    <3>2. CrossAssign \/ r.ex = r.svc
      BY <1>3 DEF SocksInv, SocksSound, NoFacade
    <3> QED
      BY <3>1, <3>2, <1>4, <1>7 DEF SocksInv, SocksSound
  <2> QED
    BY <2>1, <2>2, <2>3 DEF SocksInv
<1> QED
  BY <1>1, <1>7, <1>9, <1>10, UmuxesSame

LEMMA SendFailsStep ==
  ASSUME IInv, NEW m \in Muxes, SendFails(m)
  PROVE  IInv'
<1> USE DEF IInv
<1> DEFINE I == {i \in Impls : implMux[i] = m}
           hit(f) == \E i \in Closing(I) : owner[i] = f
<1>1. /\ open' = open \ I
      /\ conn' = CloseConn(I)
      /\ sock' = [f \in Socks |-> IF hit(f) THEN [sock[f] EXCEPT !.impl = Nil] ELSE sock[f]]
      /\ Links(owner, implMux)
      /\ UNCHANGED <<umux, state, local, registry, fault>>
  BY DEF SendFails
<1>2. ASSUME NEW f \in Socks
      PROVE  /\ sock'[f] \in Facades
             /\ sock'[f].svc = sock[f].svc /\ sock'[f].ex = sock[f].ex /\ sock'[f].mux = sock[f].mux
             /\ sock'[f].impl = IF hit(f) THEN Nil ELSE sock[f].impl
             /\ sock[f] = NoFacade => sock'[f] = NoFacade
  <2>1. sock[f] \in Facades
    BY DEF TypeOK
  <2> DEFINE r == [sock[f] EXCEPT !.impl = Nil]
  <2>2. /\ r \in Facades /\ r.impl = Nil
        /\ r.svc = sock[f].svc /\ r.ex = sock[f].ex /\ r.mux = sock[f].mux
    BY <2>1 DEF Facades, Ref
  <2>3. sock'[f] = IF hit(f) THEN r ELSE sock[f]
    BY <1>1
  <2>4. sock[f] = NoFacade => r = NoFacade
    BY DEF NoFacade
  <2> HIDE DEF r, hit
  <2> QED
    BY <2>1, <2>2, <2>3, <2>4
<1>3. Held' = Held
  BY <1>1, <1>2 DEF Held, HeldBy
<1>4. /\ owner' \in [Impls -> Ref(Socks)] /\ implMux' \in [Impls -> Ref(Muxes)]
      /\ \A j \in Impls : j \in open' => owner'[j] = owner[j] /\ implMux'[j] = implMux[j]
  BY <1>1, LinksEffect DEF TypeOK
<1>5. TypeOK'
  <2>1. conn' \in [Impls -> ConnStates]
    BY <1>1, CloseConnType
  <2>2. sock' \in [Socks -> Facades]
    <3>1. sock' = [f \in Socks |-> sock'[f]]
      BY <1>1
    <3> QED
      BY <3>1, <1>2
  <2> QED
    BY <2>1, <2>2, <1>1, <1>4 DEF TypeOK
<1>6. SocksInv'
  <2>1. OwnerValid'
    <3> SUFFICES ASSUME NEW j \in open \ I
                 PROVE  \E h \in Socks : /\ owner'[j] = h
                                         /\ sock'[h].svc # Nil
                                         /\ sock'[h].impl = j
                                         /\ sock'[h].mux = implMux'[j] /\ implMux'[j] # Nil
      BY <1>1 DEF OwnerValid, Alive
    <3>1. j \in open /\ j \in Impls /\ owner[j] \in Socks
      BY OpenImpl
    <3>2. owner'[j] = owner[j] /\ implMux'[j] = implMux[j]
      BY <3>1, <1>1, <1>4
    <3>3. ~hit(owner[j])
      <4> SUFFICES ASSUME NEW i \in Closing(I), owner[i] = owner[j] PROVE FALSE
        OBVIOUS
      <4>1. i \in open /\ i \in I
        BY DEF Closing
      <4>2. i = j
        BY <3>1, <4>1, OpenImpl
      <4> QED
        BY <4>1, <4>2
    <3> HIDE DEF hit
    <3>4. /\ sock'[owner[j]].svc = sock[owner[j]].svc /\ sock'[owner[j]].mux = sock[owner[j]].mux
          /\ sock'[owner[j]].impl = sock[owner[j]].impl
      BY <3>1, <3>3, <1>2
    <3> QED
      BY <3>1, <3>2, <3>4, OpenImpl DEF Alive
  <2> HIDE DEF hit
  <2>2. ImplsApart'
    BY <1>2 DEF SocksInv, ImplsApart
  <2>3. SocksSound'
    BY <1>2 DEF SocksInv, SocksSound
  <2> QED
    BY <2>1, <2>2, <2>3 DEF SocksInv
<1> QED
  BY <1>1, <1>3, <1>5, <1>6, MuxesSame, UmuxesSame

-----------------------------------------------------------------------------
(***************************************************************************)
(* The actions of udp_multiplexer objects.                                 *)
(***************************************************************************)

\* A step that leaves the sockets and their socket_impls alone.
LEMMA UmuxStep ==
  ASSUME TypeOK, SocksInv, UNCHANGED <<sock, implVars>>
  PROVE  /\ SocksInv'
         /\ sock' \in [Socks -> Facades] /\ owner' \in [Impls -> Ref(Socks)] /\ open' \subseteq Impls
         /\ conn' \in [Impls -> ConnStates] /\ implMux' \in [Impls -> Ref(Muxes)]
BY SocksSame DEF TypeOK, implVars

LEMMA StateOf ==
  ASSUME TypeOK, NEW u \in Umuxes, umux[u] # Nil
  PROVE  umux[u] \in States
BY DEF TypeOK, Ref

\* A new state for u, which had none or is assigned to.
LEMMA ReferEffect ==
  ASSUME TypeOK, UmuxesInv, NEW u \in Umuxes, NEW s \in States, NEW m \in Ref(Muxes),
         Refer(u, s, m), umux[u] # Nil => AssignOver, m = Nil => CrossAssign,
         UNCHANGED <<sock, fault>>
  PROVE  /\ umux' \in [Umuxes -> Ref(States)] /\ state' \in [States -> Ref(Muxes)]
         /\ UmuxesInv'
         /\ Held' = Held \cup ({m} \ {Nil})
<1>0. s # Nil /\ s \in Ref(States)
  BY NilAssumption DEF Ref
<1>1. /\ state[s] = Nil /\ \A v \in Umuxes : umux[v] # s
      /\ umux' = [umux EXCEPT ![u] = s] /\ state' = [state EXCEPT ![s] = m]
  BY DEF Refer, FreeState
<1>2. umux' \in [Umuxes -> Ref(States)] /\ state' \in [States -> Ref(Muxes)]
  BY <1>0, <1>1 DEF TypeOK
<1>3. /\ \A v \in Umuxes : umux'[v] = IF v = u THEN s ELSE umux[v]
      /\ \A t \in States : state'[t] = IF t = s THEN m ELSE state[t]
  BY <1>1 DEF TypeOK
<1>4. Held' = Held \cup ({m} \ {Nil})
  BY <1>1, <1>3 DEF Held, HeldBy
<1>5. StatesApart'
  BY <1>1, <1>3 DEF UmuxesInv, StatesApart
<1>6. StatesOwned'
  <2> SUFFICES ASSUME ~AssignOver, NEW t \in States, state'[t] # Nil PROVE \E v \in Umuxes : umux'[v] = t
    BY DEF StatesOwned
  <2>1. CASE t = s
    BY <2>1, <1>3
  <2>2. CASE t # s
    <3>1. PICK v \in Umuxes : umux[v] = t
      BY <2>2, <1>3 DEF UmuxesInv, StatesOwned
    <3>2. umux[u] = Nil /\ t # Nil
      BY NilAssumption
    <3> QED
      BY <3>1, <3>2, <1>3
  <2> QED
    BY <2>1, <2>2
<1>7. NoneExpired'
  <2>1. \A v \in Umuxes : umux[v] # Nil => umux[v] \in States
    BY StateOf
  <2> QED
    BY <1>1, <1>3, <2>1 DEF UmuxesInv, NoneExpired
<1> QED
  BY <1>2, <1>4, <1>5, <1>6, <1>7 DEF UmuxesInv

LEMMA UmuxBindSharedStep ==
  ASSUME IInv, NEW u \in Umuxes, NEW c \in Services, NEW e \in Addresses, NEW m \in Muxes,
         NEW s \in States, UmuxBindShared(u, c, e, m, s)
  PROVE  IInv'
<1> USE DEF IInv
<1>1. /\ umux[u] = Nil /\ m \in Held /\ m # Nil /\ Refer(u, s, m)
      /\ UNCHANGED <<sock, implVars, local, registry, fault>>
  BY DEF UmuxBindShared, Found
<1>2. m \in Ref(Muxes)
  BY DEF Ref
<1>3. /\ umux' \in [Umuxes -> Ref(States)] /\ state' \in [States -> Ref(Muxes)]
      /\ UmuxesInv'
      /\ Held' = Held \cup ({m} \ {Nil})
  BY <1>1, <1>2, ReferEffect
<1>4. SocksInv' /\ TypeOK'
  BY <1>1, <1>3, UmuxStep DEF TypeOK
<1>5. Held' = Held
  BY <1>1, <1>3
<1> QED
  BY <1>1, <1>3, <1>4, <1>5, MuxesSame

LEMMA UmuxBindExpiredStep ==
  ASSUME IInv, NEW u \in Umuxes, NEW c \in Services, NEW e \in Addresses, NEW m \in Muxes,
         NEW s \in States, UmuxBindExpired(u, c, e, m, s)
  PROVE  IInv'
<1> USE DEF IInv
<1>1. /\ umux[u] = Nil /\ registry[c][e] = m /\ m # Nil /\ m \notin Held /\ Refer(u, s, Nil)
      /\ UNCHANGED <<sock, implVars, local, registry, fault>>
  BY DEF UmuxBindExpired, Found
<1>2. Nil \in Ref(Muxes)
  BY DEF Ref
<1>3. CrossAssign
  BY <1>1 DEF MuxesInv, OwnIoContext, RegistryLive
<1>4. /\ umux' \in [Umuxes -> Ref(States)] /\ state' \in [States -> Ref(Muxes)]
      /\ UmuxesInv'
      /\ Held' = Held \cup ({Nil} \ {Nil})
  BY <1>1, <1>2, <1>3, ReferEffect
<1>5. SocksInv' /\ TypeOK'
  BY <1>1, <1>4, UmuxStep DEF TypeOK
<1>6. Held' = Held
  BY <1>4
<1> QED
  BY <1>1, <1>4, <1>5, <1>6, MuxesSame

LEMMA UmuxBindNewStep ==
  ASSUME IInv, NEW u \in Umuxes, NEW c \in Services, NEW e \in Addresses, NEW ep \in Endpoints,
         NEW m \in Muxes, NEW s \in States, UmuxBindNew(u, c, e, ep, m, s)
  PROVE  IInv'
<1> USE DEF IInv
<1>1. /\ umux[u] = Nil /\ Creates(c, e, ep, m) /\ Refer(u, s, m)
      /\ registry' = Register(c, e, ep, m)
      /\ UNCHANGED <<sock, implVars, fault>>
  BY DEF UmuxBindNew
<1>2. m \in Ref(Muxes) /\ m # Nil
  BY NilAssumption DEF Ref
<1>3. /\ umux' \in [Umuxes -> Ref(States)] /\ state' \in [States -> Ref(Muxes)]
      /\ UmuxesInv'
      /\ Held' = Held \cup ({m} \ {Nil})
  BY <1>1, <1>2, ReferEffect
<1>4. /\ local' \in [Muxes -> UdpSockets]
      /\ local'[m].svc = c /\ local'[m].ep = ep /\ local'[m].made
      /\ \A n \in Muxes : n # m => local'[n] = local[n]
  <2>1. [svc |-> c, ep |-> ep, made |-> TRUE] \in UdpSockets
    BY DEF UdpSockets, Ref
  <2>2. local' = [local EXCEPT ![m] = [svc |-> c, ep |-> ep, made |-> TRUE]]
    BY DEF UmuxBindNew, NewMux
  <2> QED
    BY <2>1, <2>2 DEF TypeOK
<1>5. registry' \in [Services -> [Addresses -> Ref(Muxes)]]
  BY <1>1, RegisterEffect
<1>6. SocksInv' /\ TypeOK'
  BY <1>1, <1>3, <1>4, <1>5, UmuxStep DEF TypeOK
<1>7. MuxesInv'
  <2>1. m \in Held' /\ Held' \in SUBSET (Held \cup {m}) /\ Held \ Held' = {}
    BY <1>2, <1>3
  <2>2. \A c2 \in Services, e2 \in Addresses :
            registry'[c2][e2] = IF \E d \in Held \ Held' : local[d].svc = c2 /\ local[d].ep = e2
                                THEN Nil ELSE Register(c, e, ep, m)[c2][e2]
    BY <1>1, <2>1
  <2>3. TypeOK /\ MuxesInv
    OBVIOUS
  <2>4. Creates(c, e, ep, m)
    BY <1>1
  <2> HIDE DEF IInv
  <2> QED
    BY <1>4, <2>1, <2>2, <2>3, <2>4, MuxesCreated
<1> QED
  BY <1>3, <1>6, <1>7

LEMMA UmuxBindAbstractStep ==
  ASSUME IInv, NEW u \in Umuxes, NEW c \in Services, NEW ep \in Endpoints,
         NEW m \in Muxes, NEW s \in States, UmuxBindAbstract(u, c, ep, m, s)
  PROVE  IInv'
<1> USE DEF IInv
<1>1. /\ umux[u] = Nil /\ (OwnPorts => ep \notin Taken) /\ FreeMux(m) /\ Refer(u, s, m)
      /\ UNCHANGED <<sock, implVars, registry, fault>>
  BY DEF UmuxBindAbstract
<1>2. m \in Ref(Muxes) /\ m # Nil
  BY NilAssumption DEF Ref
<1>3. /\ umux' \in [Umuxes -> Ref(States)] /\ state' \in [States -> Ref(Muxes)]
      /\ UmuxesInv'
      /\ Held' = Held \cup ({m} \ {Nil})
  BY <1>1, <1>2, ReferEffect
<1>4. /\ local' \in [Muxes -> UdpSockets]
      /\ local'[m].ep = ep /\ ~local'[m].made
      /\ \A n \in Muxes : n # m => local'[n] = local[n]
  <2>1. [svc |-> c, ep |-> ep, made |-> FALSE] \in UdpSockets
    BY DEF UdpSockets, Ref
  <2>2. local' = [local EXCEPT ![m] = [svc |-> c, ep |-> ep, made |-> FALSE]]
    BY DEF UmuxBindAbstract, NewMux
  <2> QED
    BY <2>1, <2>2 DEF TypeOK
<1>5. SocksInv' /\ TypeOK'
  BY <1>1, <1>3, <1>4, UmuxStep DEF TypeOK
<1>6. MuxesInv'
  <2>1. Held' = Held \cup {m}
    BY <1>2, <1>3
  <2> QED
    BY <1>1, <1>4, <2>1, MuxesGiven
<1> QED
  BY <1>3, <1>5, <1>6

LEMMA UmuxCopyStep ==
  ASSUME IInv, NEW u \in Umuxes, NEW v \in Umuxes, NEW s \in States, UmuxCopy(u, v, s)
  PROVE  IInv'
<1> USE DEF IInv
<1>1. /\ umux[v] # Nil /\ (umux[u] # Nil => AssignOver)
      /\ Refer(u, s, state[umux[v]])
      /\ UNCHANGED <<sock, implVars, local, registry, fault>>
  BY DEF UmuxCopy
<1>2. umux[v] \in States
  BY <1>1, StateOf
<1>3. PICK m \in Ref(Muxes) : m = state[umux[v]]
  BY <1>2 DEF TypeOK
<1>4. m = Nil => CrossAssign
  BY <1>1, <1>3 DEF UmuxesInv, NoneExpired
<1>5. /\ umux' \in [Umuxes -> Ref(States)] /\ state' \in [States -> Ref(Muxes)]
      /\ UmuxesInv'
      /\ Held' = Held \cup ({m} \ {Nil})
  BY <1>1, <1>3, <1>4, ReferEffect
<1>6. SocksInv' /\ TypeOK'
  BY <1>1, <1>5, UmuxStep DEF TypeOK
<1>7. Held' = Held
  BY <1>2, <1>3, <1>5, HeldTypes
<1> QED
  BY <1>1, <1>5, <1>6, <1>7, MuxesSame

LEMMA UmuxMoveStep ==
  ASSUME IInv, NEW u \in Umuxes, NEW v \in Umuxes, UmuxMove(u, v)
  PROVE  IInv'
<1> USE DEF IInv
<1>1. /\ u # v /\ umux[v] # Nil /\ (umux[u] # Nil => AssignOver)
      /\ umux' = [umux EXCEPT ![u] = umux[v], ![v] = Nil]
      /\ UNCHANGED <<sock, implVars, state, local, registry, fault>>
  BY DEF UmuxMove
<1>2. /\ umux' \in [Umuxes -> Ref(States)]
      /\ \A w \in Umuxes : umux'[w] = IF w = v THEN Nil ELSE IF w = u THEN umux[v] ELSE umux[w]
  BY <1>1 DEF TypeOK, Ref
<1>3. SocksInv' /\ TypeOK'
  BY <1>1, <1>2, UmuxStep DEF TypeOK
<1>4. UmuxesInv'
  <2>1. StatesApart'
    BY <1>1, <1>2 DEF UmuxesInv, StatesApart
  <2>2. StatesOwned'
    <3> SUFFICES ASSUME ~AssignOver, NEW t \in States, state[t] # Nil PROVE \E w \in Umuxes : umux'[w] = t
      BY <1>1 DEF StatesOwned
    <3>1. PICK w \in Umuxes : umux[w] = t
      BY DEF UmuxesInv, StatesOwned
    <3>2. w # u
      BY <1>1, <3>1, NilAssumption
    <3> QED
      BY <1>1, <1>2, <3>1, <3>2
  <2>3. NoneExpired'
    BY <1>1, <1>2 DEF UmuxesInv, NoneExpired
  <2> QED
    BY <2>1, <2>2, <2>3 DEF UmuxesInv
<1>5. MuxesInv'
  BY <1>1, MuxesSame DEF Held
<1> QED
  BY <1>3, <1>4, <1>5

\* A state that is closed drops its multiplexer, and perhaps the last
\* reference to it; the open socket_impls keep theirs.
LEMMA DropStep ==
  ASSUME IInv, NEW st \in [States -> Ref(Muxes)],
         \A t \in States : st[t] # Nil => st[t] \in Held,
         Release(sock, st, open, conn), Links(owner, implMux), UNCHANGED fault,
         umux' \in [Umuxes -> Ref(States)]
  PROVE  TypeOK' /\ SocksInv' /\ MuxesInv' /\ state' = st
<1> USE DEF IInv
<1>1. HeldBy(sock, st) \in SUBSET Held
  BY HeldTypes DEF HeldBy
<1>2. \A i \in open : implMux[i] \in HeldBy(sock, st)
  <2> TAKE i \in open
  <2> QED
    BY OpenImpl, HeldByIs
<1>3. sock \in [Socks -> Facades] /\ open \in SUBSET Impls /\ conn \in [Impls -> ConnStates]
  BY DEF TypeOK
<1>4. /\ sock' = sock /\ state' = st /\ open' = open
      /\ registry' \in [Services -> [Addresses -> Ref(Muxes)]]
      /\ conn' \in [Impls -> ConnStates]
      /\ local' \in [Muxes -> UdpSockets]
      /\ MuxesInv'
  BY <1>1, <1>2, <1>3, ReleaseEffect
<1>5. /\ owner' \in [Impls -> Ref(Socks)] /\ implMux' \in [Impls -> Ref(Muxes)]
      /\ \A j \in Impls : j \in open' => owner'[j] = owner[j] /\ implMux'[j] = implMux[j]
  BY LinksEffect DEF TypeOK
<1>6. TypeOK'
  BY <1>4, <1>5 DEF TypeOK
<1>7. SocksInv'
  BY <1>4, <1>5, SocksSame
<1> QED
  BY <1>4, <1>6, <1>7

LEMMA UmuxCloseStep ==
  ASSUME IInv, NEW u \in Umuxes, UmuxClose(u)
  PROVE  IInv'
<1> USE DEF IInv
<1>1. /\ umux[u] # Nil
      /\ umux' = [umux EXCEPT ![u] = Nil]
      /\ Release(sock, Dropped(umux[u]), open, conn)
      /\ Links(owner, implMux)
      /\ UNCHANGED fault
  BY DEF UmuxClose
<1>2. umux[u] \in States
  BY <1>1, StateOf
<1>3. PICK st \in [States -> Ref(Muxes)] :
         /\ st = Dropped(umux[u])
         /\ \A t \in States : st[t] = IF t = umux[u] THEN Nil ELSE state[t]
  <2>1. /\ Dropped(umux[u]) \in [States -> Ref(Muxes)]
        /\ \A t \in States : Dropped(umux[u])[t] = IF t = umux[u] THEN Nil ELSE state[t]
    BY <1>2 DEF Dropped, TypeOK, Ref
  <2> QED
    BY <2>1
<1>4. /\ umux' \in [Umuxes -> Ref(States)]
      /\ \A w \in Umuxes : umux'[w] = IF w = u THEN Nil ELSE umux[w]
  BY <1>1 DEF TypeOK, Ref
<1>5. \A t \in States : st[t] # Nil => st[t] \in Held
  BY <1>3, HeldTypes
<1>6. TypeOK' /\ SocksInv' /\ MuxesInv' /\ state' = st
  BY <1>1, <1>3, <1>4, <1>5, DropStep
<1>7. UmuxesInv'
  <2>1. StatesApart'
    BY <1>4 DEF UmuxesInv, StatesApart
  <2>2. StatesOwned'
    <3> SUFFICES ASSUME ~AssignOver, NEW t \in States, st[t] # Nil PROVE \E w \in Umuxes : umux'[w] = t
      BY <1>6 DEF StatesOwned
    <3>1. t # umux[u] /\ state[t] # Nil
      BY <1>3
    <3>2. PICK w \in Umuxes : umux[w] = t
      BY <3>1 DEF UmuxesInv, StatesOwned
    <3> QED
      BY <3>1, <3>2, <1>4
  <2>3. NoneExpired'
    <3> SUFFICES ASSUME ~CrossAssign
                 PROVE  /\ \A w \in Umuxes : umux'[w] # Nil => st[umux'[w]] # Nil
                        /\ fault' # "null_multiplexer"
      BY <1>6 DEF NoneExpired
    <3>1. fault' # "null_multiplexer"
      BY <1>1 DEF UmuxesInv, NoneExpired
    <3>2. ASSUME NEW w \in Umuxes, umux'[w] # Nil PROVE st[umux'[w]] # Nil
      <4>1. w # u /\ umux'[w] = umux[w] /\ umux[w] # umux[u] /\ umux[w] \in States
        BY <1>1, <1>4, <3>2, StateOf DEF UmuxesInv, StatesApart
      <4> QED
        BY <4>1, <3>2, <1>3 DEF UmuxesInv, NoneExpired
    <3> QED
      BY <3>1, <3>2
  <2> QED
    BY <2>1, <2>2, <2>3 DEF UmuxesInv
<1> QED
  BY <1>6, <1>7

LEMMA UmuxRebindStep ==
  ASSUME IInv, NEW u \in Umuxes, NEW v \in Umuxes, NEW s \in States, UmuxRebind(u, v, s)
  PROVE  IInv'
<1> USE DEF IInv
<1>1. /\ u # v /\ umux[u] # Nil /\ umux[v] # Nil
      /\ FreeState(s) \/ s = umux[u]
      /\ umux' = [umux EXCEPT ![u] = s]
      /\ Release(sock, [Dropped(umux[u]) EXCEPT ![s] = state[umux[v]]], open, conn)
      /\ Links(owner, implMux)
      /\ UNCHANGED fault
  BY DEF UmuxRebind
<1>2. umux[u] \in States /\ umux[v] \in States
  BY <1>1, StateOf
<1>3. PICK st \in [States -> Ref(Muxes)] :
         /\ st = [Dropped(umux[u]) EXCEPT ![s] = state[umux[v]]]
         /\ \A t \in States : st[t] = IF t = s THEN state[umux[v]]
                                      ELSE IF t = umux[u] THEN Nil ELSE state[t]
  <2> DEFINE d == Dropped(umux[u])
             st == [d EXCEPT ![s] = state[umux[v]]]
  <2>1. d \in [States -> Ref(Muxes)] /\ \A t \in States : d[t] = IF t = umux[u] THEN Nil ELSE state[t]
    BY <1>2 DEF Dropped, TypeOK, Ref
  <2>2. state[umux[v]] \in Ref(Muxes)
    BY <1>2 DEF TypeOK
  <2> HIDE DEF d
  <2>3. /\ st \in [States -> Ref(Muxes)]
        /\ \A t \in States : st[t] = IF t = s THEN state[umux[v]]
                                      ELSE IF t = umux[u] THEN Nil ELSE state[t]
    BY <2>1, <2>2
  <2> HIDE DEF st
  <2> QED
    BY <2>3 DEF st, d
<1>4. /\ umux' \in [Umuxes -> Ref(States)]
      /\ \A w \in Umuxes : umux'[w] = IF w = u THEN s ELSE umux[w]
  BY <1>1 DEF TypeOK, Ref
<1>5. \A t \in States : st[t] # Nil => st[t] \in Held
  BY <1>2, <1>3, HeldTypes
<1>6. TypeOK' /\ SocksInv' /\ MuxesInv' /\ state' = st
  BY <1>1, <1>3, <1>4, <1>5, DropStep
<1>7. \A w \in Umuxes : w # u => umux[w] # s
  BY <1>1 DEF FreeState, UmuxesInv, StatesApart
<1>8. UmuxesInv'
  <2>1. StatesApart'
    BY <1>4, <1>7 DEF UmuxesInv, StatesApart
  <2>2. StatesOwned'
    <3> SUFFICES ASSUME ~AssignOver, NEW t \in States, st[t] # Nil PROVE \E w \in Umuxes : umux'[w] = t
      BY <1>6 DEF StatesOwned
    <3>1. CASE t = s
      BY <3>1, <1>4
    <3>2. CASE t # s
      <4>1. t # umux[u] /\ state[t] # Nil
        BY <3>2, <1>3
      <4>2. PICK w \in Umuxes : umux[w] = t
        BY <4>1 DEF UmuxesInv, StatesOwned
      <4> QED
        BY <4>1, <4>2, <1>4
    <3> QED
      BY <3>1, <3>2
  <2>3. NoneExpired'
    <3> SUFFICES ASSUME ~CrossAssign
                 PROVE  /\ \A w \in Umuxes : umux'[w] # Nil => st[umux'[w]] # Nil
                        /\ fault' # "null_multiplexer"
      BY <1>6 DEF NoneExpired
    <3>1. fault' # "null_multiplexer"
      BY <1>1 DEF UmuxesInv, NoneExpired
    <3>2. ASSUME NEW w \in Umuxes, umux'[w] # Nil, w # u PROVE st[umux'[w]] # Nil
      <4>1. umux'[w] = umux[w] /\ umux[w] # umux[u] /\ umux[w] \in States /\ umux[w] # s
        BY <1>1, <1>4, <1>7, <3>2, StateOf DEF UmuxesInv, StatesApart
      <4> QED
        BY <4>1, <3>2, <1>3 DEF UmuxesInv, NoneExpired
    <3>3. st[umux'[u]] # Nil
      BY <1>1, <1>3, <1>4 DEF UmuxesInv, NoneExpired
    <3> QED
      BY <3>1, <3>2, <3>3
  <2> QED
    BY <2>1, <2>2, <2>3 DEF UmuxesInv
<1> QED
  BY <1>6, <1>8

-----------------------------------------------------------------------------
(***************************************************************************)
(* The theorems.                                                           *)
(***************************************************************************)

LEMMA BindNextStep == ASSUME IInv, BindNext PROVE IInv'
<1>1. ASSUME NEW f \in Socks, NEW i \in Impls, NEW u \in Umuxes, BindTo(f, u, i) PROVE IInv'
  BY <1>1, BindToStep
<1>2. ASSUME NEW f \in Socks, NEW u \in Umuxes, BindToExpired(f, u) PROVE IInv'
  BY <1>2, BindToExpiredStep
<1>3. ASSUME NEW f \in Socks, NEW i \in Impls, NEW e \in Addresses, NEW m \in Muxes,
             BindShared(f, e, m, i)
      PROVE  IInv'
  BY <1>3, BindSharedStep
<1>4. ASSUME NEW f \in Socks, NEW e \in Addresses, NEW m \in Muxes, BindExpired(f, e, m) PROVE IInv'
  BY <1>4, BindExpiredStep
<1>5. ASSUME NEW f \in Socks, NEW i \in Impls, NEW e \in Addresses, NEW m \in Muxes,
             NEW ep \in Endpoints, BindNew(f, e, ep, m, i)
      PROVE  IInv'
  BY <1>5, BindNewStep
<1> QED
  BY <1>1, <1>2, <1>3, <1>4, <1>5 DEF BindNext

LEMMA SockNextStep == ASSUME IInv, SockNext PROVE IInv'
<1>1. ASSUME NEW f \in Socks, NEW c \in Services, NewSocket(f, c) PROVE IInv'
  BY <1>1, NewSocketStep
<1>2. ASSUME NEW f \in Socks, NEW gone \in BOOLEAN, CloseSocket(f, gone) PROVE IInv'
  BY <1>2, CloseSocketStep
<1>3. ASSUME NEW f \in Socks, ReadEof(f) PROVE IInv'
  BY <1>3, ReadEofStep
<1>4. ASSUME NEW f \in Socks, NEW g \in Socks, MoveConstruct(f, g) PROVE IInv'
  BY <1>4, MoveConstructStep
<1>5. ASSUME NEW f \in Socks, NEW g \in Socks, MoveAssign(f, g) PROVE IInv'
  BY <1>5, MoveAssignStep
<1>6. ASSUME NEW i \in Impls, Connect(i) \/ OnEof(i) \/ OnDestroy(i) PROVE IInv'
  BY <1>6, ConnectStep
<1>7. ASSUME NEW m \in Muxes, SendFails(m) PROVE IInv'
  BY <1>7, SendFailsStep
<1> QED
  BY <1>1, <1>2, <1>3, <1>4, <1>5, <1>6, <1>7, Zenon DEF SockNext

LEMMA UmuxNextStep == ASSUME IInv, UmuxNext PROVE IInv'
<1>1. ASSUME NEW u \in Umuxes, UmuxClose(u) PROVE IInv'
  BY <1>1, UmuxCloseStep
<1>2. ASSUME NEW u \in Umuxes, NEW v \in Umuxes, UmuxMove(u, v) PROVE IInv'
  BY <1>2, UmuxMoveStep
<1>3. ASSUME NEW u \in Umuxes, NEW v \in Umuxes, NEW s \in States, UmuxCopy(u, v, s) PROVE IInv'
  BY <1>3, UmuxCopyStep
<1>4. ASSUME NEW u \in Umuxes, NEW v \in Umuxes, NEW s \in States, UmuxRebind(u, v, s) PROVE IInv'
  BY <1>4, UmuxRebindStep
<1>5. ASSUME NEW u \in Umuxes, NEW c \in Services, NEW m \in Muxes, NEW s \in States,
             NEW e \in Addresses, UmuxBindShared(u, c, e, m, s)
      PROVE  IInv'
  BY <1>5, UmuxBindSharedStep
<1>6. ASSUME NEW u \in Umuxes, NEW c \in Services, NEW m \in Muxes, NEW s \in States,
             NEW e \in Addresses, UmuxBindExpired(u, c, e, m, s)
      PROVE  IInv'
  BY <1>6, UmuxBindExpiredStep
<1>7. ASSUME NEW u \in Umuxes, NEW c \in Services, NEW m \in Muxes, NEW s \in States,
             NEW ep \in Endpoints, UmuxBindAbstract(u, c, ep, m, s)
      PROVE  IInv'
  BY <1>7, UmuxBindAbstractStep
<1>8. ASSUME NEW u \in Umuxes, NEW c \in Services, NEW m \in Muxes, NEW s \in States,
             NEW e \in Addresses, NEW ep \in Endpoints, UmuxBindNew(u, c, e, ep, m, s)
      PROVE  IInv'
  BY <1>8, UmuxBindNewStep
<1> QED
  BY <1>1, <1>2, <1>3, <1>4, <1>5, <1>6, <1>7, <1>8 DEF UmuxNext

LEMMA NextIInv == IInv /\ [Next]_vars => IInv'
<1> SUFFICES ASSUME IInv, [Next]_vars PROVE IInv'
  OBVIOUS
<1>1. CASE BindNext
  BY <1>1, BindNextStep
<1>2. CASE SockNext
  BY <1>2, SockNextStep
<1>3. CASE UmuxNext
  BY <1>3, UmuxNextStep
<1>4. CASE UNCHANGED vars
  <2>1. UNCHANGED <<sock, owner, open, conn, implMux, umux, state, local, registry, fault>>
    BY <1>4 DEF vars, implVars
  <2>2. TypeOK'
    BY <2>1 DEF IInv, TypeOK
  <2>3. SocksInv'
    BY <2>1, SocksSame DEF IInv
  <2>4. MuxesInv'
    BY <2>1, MuxesSame DEF IInv, Held
  <2>5. UmuxesInv'
    BY <2>1, UmuxesSame DEF IInv
  <2> QED
    BY <2>2, <2>3, <2>4, <2>5 DEF IInv
<1> QED
  BY <1>1, <1>2, <1>3, <1>4 DEF Next

\* The inductive invariant holds.
THEOREM Invariance == Spec => []IInv
BY InitIInv, NextIInv, PTL DEF Spec

\* The members of all objects have their types.
THEOREM TypeCorrect == Spec => []TypeOK
<1>1. IInv => TypeOK
  BY DEF IInv
<1> QED
  BY <1>1, Invariance, PTL

\* The plain pointer through which close_with_error writes is valid for any
\* number of sockets, moved, assigned, closed and destroyed in any order.
THEOREM OwnersValid == Spec => []OwnerValid
<1>1. IInv => OwnerValid
  BY DEF IInv, SocksInv
<1> QED
  BY <1>1, Invariance, PTL

\* A weak_ptr of the registry of its own io_context has not expired.
THEOREM RegistryAlive == Spec => []RegistryLive
<1>1. IInv => RegistryLive
  BY DEF IInv, MuxesInv
<1> QED
  BY <1>1, Invariance, PTL

\* A multiplexer the service made can be found under its port as long as it
\* occupies it, when the endpoints that abstract_udp_sockets report are ports
\* of their own.
THEOREM PortsShareable ==
  ASSUME OwnPorts
  PROVE  Spec => []Shareable
<1>1. IInv => Shareable
  BY DEF IInv, MuxesInv
<1> QED
  BY <1>1, Invariance, PTL

\* No port leaks, when udp_multiplexers that are bound are not assigned to.
THEOREM NothingLeaks ==
  ASSUME ~AssignOver
  PROVE  Spec => []HeldByClient
<1>1. IInv => HeldByClient
  <2> SUFFICES ASSUME IInv, NEW m \in Held
               PROVE  \/ \E f \in Socks : Alive(f) /\ sock[f].mux = m
                      \/ \E u \in Umuxes : umux[u] # Nil /\ state[umux[u]] = m
    BY DEF HeldByClient
  <2>1. m # Nil /\ ((\E f \in Socks : sock[f].mux = m) \/ (\E s \in States : state[s] = m))
    BY HeldByIs DEF Held
  <2>2. ASSUME NEW f \in Socks, sock[f].mux = m PROVE Alive(f)
    BY <2>1, <2>2 DEF IInv, SocksInv, SocksSound, Alive, NoFacade
  <2>3. ASSUME NEW s \in States, state[s] = m
        PROVE  \E u \in Umuxes : umux[u] # Nil /\ state[umux[u]] = m
    BY <2>1, <2>3, NilAssumption DEF IInv, UmuxesInv, StatesOwned
  <2> QED
    BY <2>1, <2>2, <2>3
<1> QED
  BY <1>1, Invariance, PTL

\* ~service finds its registry empty once no object is left, for clients
\* that assign neither to bound udp_multiplexers nor across io_contexts.
THEOREM RegistryLeftEmpty ==
  ASSUME ~AssignOver, ~CrossAssign
  PROVE  Spec => []RegistryEmptied
<1>1. IInv /\ HeldByClient => RegistryEmptied
  <2> SUFFICES ASSUME IInv, HeldByClient,
                      \A f \in Socks : ~Alive(f), \A u \in Umuxes : umux[u] = Nil,
                      NEW c \in Services, NEW e \in Addresses, registry[c][e] # Nil
               PROVE  FALSE
    BY DEF RegistryEmptied
  <2>1. registry[c][e] \in Held
    BY DEF IInv, MuxesInv, OwnIoContext, RegistryLive
  <2> QED
    BY <2>1 DEF HeldByClient
<1> QED
  BY <1>1, Invariance, NothingLeaks, PTL

\* Nobody meets a multiplexer that has expired, neither through the registry
\* nor through a udp_multiplexer, unless sockets are assigned across
\* io_contexts.
THEOREM NeverExpired ==
  ASSUME ~CrossAssign
  PROVE  Spec => [](fault # "null_multiplexer")
<1>1. IInv => fault # "null_multiplexer"
  BY DEF IInv, UmuxesInv, NoneExpired
<1> QED
  BY <1>1, Invariance, PTL

=============================================================================
