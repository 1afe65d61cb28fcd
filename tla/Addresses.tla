----------------------------- MODULE Addresses ------------------------------
(***************************************************************************)
(* The addresses of a connection: what the client or a datagram gives,     *)
(* what libutp is given (util::to_sockaddr), where its packets go and what *)
(* remote_endpoint returns (util::to_endpoint).                            *)
(*                                                                         *)
(* Ports are 16 bits wide and change their byte order on the way; so does  *)
(* the scope id, which is 32 bits wide in asio::ip::address_v6.  An IPv6   *)
(* address is a pair of halves of 8 bytes, because struct sockaddr, the    *)
(* buffer of remote_endpoint, ends between them.                           *)
(***************************************************************************)
EXTENDS Naturals

CONSTANTS
    Ports,   \* port numbers
    Halves,  \* values of one half of an IPv6 address, and of an IPv4 address
    Scopes,  \* scope ids of IPv6 addresses
    Nil      \* not known yet

ASSUME PortsAssumption  == Ports \subseteq 0..(2^16 - 1)
ASSUME HalvesAssumption == {0, 1} \subseteq Halves /\ Halves \subseteq Nat
ASSUME ScopesAssumption == 0 \in Scopes /\ Scopes \subseteq Nat

VARIABLES
    named,     \* the endpoint the client or the first datagram has named
    peer,      \* the sockaddr libutp has for the connection
    sent,      \* the endpoint the last packet was sent to
    reported   \* what remote_endpoint has returned

vars == <<named, peer, sent, reported>>

\* asio::ip::udp::endpoint.  Addresses are <<n>> and <<high, low>>.
Endpoint(family, addr, port, scope) ==
    [family |-> family, addr |-> addr, port |-> port, scope |-> scope]

EndpointsV4 == {Endpoint("v4", <<n>>, p, 0) : n \in Halves, p \in Ports}
EndpointsV6 == {Endpoint("v6", <<h, l>>, p, s) :
                    h \in Halves, l \in Halves, p \in Ports, s \in Scopes}
Endpoints   == EndpointsV4 \cup EndpointsV6

\* sockaddr_in and sockaddr_in6, port and scope as the bytes lie in memory.
SockAddrs == [family : {"v4", "v6"}, addr : {<<n>> : n \in Halves} \cup (Halves \X Halves),
              port : 0..(2^16 - 1), scope : Nat]

-----------------------------------------------------------------------------
(***************************************************************************)
(* Conversions.                                                            *)
(***************************************************************************)

\* htons on a little-endian host: its argument is converted to 16 bits, and
\* the two bytes are exchanged.
htons(n) == ((n % 2^8) * 2^8) + ((n \div 2^8) % 2^8)

\* The same function.
ntohs(n) == htons(n)

to_sockaddr_v4(ep) == Endpoint("v4", ep.addr, htons(ep.port), 0)

to_sockaddr_v6(ep) == Endpoint("v6", ep.addr, htons(ep.port), htons(ep.scope))

to_sockaddr(ep) == IF ep.family = "v4" THEN to_sockaddr_v4(ep) ELSE to_sockaddr_v6(ep)

to_endpoint_v4(a) == Endpoint("v4", a.addr, ntohs(a.port), 0)

\* The scope id is not looked at.
to_endpoint_v6(a) == Endpoint("v6", a.addr, ntohs(a.port), 0)

to_endpoint(a) == IF a.family = "v4" THEN to_endpoint_v4(a) ELSE to_endpoint_v6(a)

IsUnspecified(ep) == \A i \in DOMAIN ep.addr : ep.addr[i] = 0

Loopback(family) == IF family = "v4" THEN <<1>> ELSE <<0, 1>>

\* Mutant: the unspecified address is replaced for IPv4 only.
Connectable_v4(ep) ==
    IF IsUnspecified(ep) /\ ep.family = "v4"
    THEN [ep EXCEPT !.addr = Loopback(ep.family)] ELSE ep

\* socket::do_connect: the unspecified address stands for this host.
Connectable(ep) ==
    IF IsUnspecified(ep) THEN Endpoint(ep.family, Loopback(ep.family), ep.port, 0) ELSE ep

\* utp_getpeername fills as much of a sockaddr of 16 bytes as there is: with
\* IPv6 the last 8 bytes of the address are read from beyond it.
Truncated(a, garbage) ==
    IF a.family = "v4" THEN a ELSE [a EXCEPT !.addr = <<@[1], garbage>>]

-----------------------------------------------------------------------------

TypeOK ==
    /\ named \in Endpoints \cup {Nil}
    /\ peer \in SockAddrs \cup {Nil}
    /\ sent \in Endpoints \cup {Nil}
    /\ reported \in Endpoints \cup {Nil}

Init ==
    /\ named = Nil
    /\ peer = Nil
    /\ sent = Nil
    /\ reported = Nil

\* do_connect: named by the client.
Connect(ep) ==
    /\ peer = Nil
    /\ named' = Connectable(ep)
    /\ peer' = to_sockaddr(Connectable(ep))
    /\ UNCHANGED <<sent, reported>>

\* on_read, and libutp accepts: named by the datagram, whose source is a
\* specified address.
Accept(ep) ==
    /\ peer = Nil
    /\ ~IsUnspecified(ep)
    /\ named' = ep
    /\ peer' = to_sockaddr(ep)
    /\ UNCHANGED <<sent, reported>>

\* callback_sendto
SendTo ==
    /\ peer # Nil
    /\ sent' = to_endpoint(peer)
    /\ UNCHANGED <<named, peer, reported>>

\* socket_impl::remote_endpoint
RemoteEndpoint(garbage) ==
    /\ peer # Nil
    /\ reported' = to_endpoint(Truncated(peer, garbage))
    /\ UNCHANGED <<named, peer, sent>>

\* The connection ends, the socket is bound and used again.
Reset ==
    /\ peer # Nil
    /\ named' = Nil /\ peer' = Nil /\ sent' = Nil /\ reported' = Nil

Next ==
    \/ SendTo \/ Reset
    \/ \E ep \in Endpoints : Connect(ep) \/ Accept(ep)
    \/ \E garbage \in Halves : RemoteEndpoint(garbage)

Spec == Init /\ [][Next]_vars

-----------------------------------------------------------------------------
(***************************************************************************)
(* Properties.                                                             *)
(***************************************************************************)

\* Packets go where the connection goes: after the conversion to a sockaddr
\* and back, they are sent to the very endpoint the connection was made to
\* or accepted from, but for its scope id, and never to the unspecified
\* address, which libutp cannot connect to.  remote_endpoint of an IPv4
\* connection returns it as well; of an IPv6 connection the port and the
\* first half of the address are those of the peer.
PeerKept ==
    /\ sent # Nil => sent = [named EXCEPT !.scope = 0] /\ ~IsUnspecified(sent)
    /\ reported # Nil =>
          /\ named.family = "v4" => reported = named
          /\ <<reported.family, reported.port, reported.addr[1]>> =
                <<named.family, named.port, named.addr[1]>>

\* to_endpoint(to_sockaddr(ep)) = ep
RoundTrip == named # Nil => to_endpoint(to_sockaddr(named)) = named

\* Like remote_endpoint of a TCP socket, it returns the peer's endpoint.
ReportedIsPeer == reported # Nil => reported = named

=============================================================================
