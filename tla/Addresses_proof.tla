-------------------------- MODULE Addresses_proof ---------------------------
EXTENDS Addresses, TLAPS

(***************************************************************************)
(* Byte order.                                                             *)
(***************************************************************************)

\* A port is two bytes.
LEMMA TwoBytes ==
  ASSUME NEW n \in Nat, n < 65536
  PROVE  /\ n % 256 \in Nat /\ n % 256 < 256
         /\ n \div 256 \in Nat /\ n \div 256 < 256
         /\ n = (n \div 256) * 256 + (n % 256)
OBVIOUS

\* And two bytes are a port, which they can be read from again.
LEMMA FromBytes ==
  ASSUME NEW a \in Nat, NEW b \in Nat, a < 256, b < 256
  PROVE  /\ a * 256 + b \in Nat /\ a * 256 + b < 65536
         /\ (a * 256 + b) % 256 = b
         /\ (a * 256 + b) \div 256 = a
OBVIOUS

LEMMA htonsSwaps ==
  ASSUME NEW n \in Nat, n < 65536
  PROVE  htons(n) = (n % 256) * 256 + (n \div 256)
<1>1. n \div 256 \in Nat /\ n \div 256 < 256
  BY TwoBytes
<1>2. (n \div 256) % 256 = n \div 256
  BY <1>1
<1>3. 2^8 = 256
  OBVIOUS
<1>4. htons(n) = ((n % 256) * 256) + ((n \div 256) % 256)
  BY <1>3 DEF htons
<1> QED
  BY <1>2, <1>4

\* Of a port given by its bytes.
LEMMA htonsOfBytes ==
  ASSUME NEW a \in Nat, NEW b \in Nat, a < 256, b < 256
  PROVE  htons(a * 256 + b) = b * 256 + a
<1>1. /\ a * 256 + b \in Nat /\ a * 256 + b < 65536
      /\ (a * 256 + b) % 256 = b
      /\ (a * 256 + b) \div 256 = a
  BY FromBytes
<1>2. ASSUME NEW m \in Nat, m < 65536, m % 256 = b, m \div 256 = a
      PROVE  htons(m) = b * 256 + a
  <2>1. htons(m) = (m % 256) * 256 + (m \div 256)
    BY <1>2, htonsSwaps
  <2> QED
    BY <1>2, <2>1
<1> QED
  BY <1>1, <1>2

\* ntohs undoes htons on every port.
LEMMA PortRoundTrip ==
  ASSUME NEW n \in Nat, n < 65536
  PROVE  ntohs(htons(n)) = n
<1>1. PICK hi \in Nat, lo \in Nat : hi < 256 /\ lo < 256 /\ n = hi * 256 + lo
  <2>1. /\ n % 256 \in Nat /\ n % 256 < 256
        /\ n \div 256 \in Nat /\ n \div 256 < 256
        /\ n = (n \div 256) * 256 + (n % 256)
    BY TwoBytes
  <2>2. WITNESS n \div 256 \in Nat, n % 256 \in Nat
  <2> QED
    BY <2>1
<1>2. htons(n) = lo * 256 + hi
  BY <1>1, htonsOfBytes
<1>3. htons(lo * 256 + hi) = hi * 256 + lo
  BY <1>1, htonsOfBytes
<1> QED
  BY <1>1, <1>2, <1>3 DEF ntohs

-----------------------------------------------------------------------------
(***************************************************************************)
(* Endpoints.                                                              *)
(***************************************************************************)

LEMMA PortValues ==
  ASSUME NEW p \in Ports
  PROVE  p \in Nat /\ p < 65536
<1>1. p \in 0..(2^16 - 1)
  BY PortsAssumption
<1> QED
  BY <1>1

\* What an endpoint is made of.
LEMMA EndpointParts ==
  ASSUME NEW ep \in Endpoints
  PROVE  /\ ep = Endpoint(ep.family, ep.addr, ep.port, ep.scope)
         /\ ep.port \in Ports
         /\ ep.scope \in Scopes
         /\ \/ ep.family = "v4" /\ ep.scope = 0 /\ \E n \in Halves : ep.addr = <<n>>
            \/ ep.family = "v6" /\ \E h, l \in Halves : ep.addr = <<h, l>>
BY ScopesAssumption DEF Endpoints, EndpointsV4, EndpointsV6, Endpoint

LEMMA MadeEndpoint ==
  ASSUME NEW p \in Ports, NEW s \in Scopes, NEW h \in Halves, NEW l \in Halves
  PROVE  Endpoint("v4", <<h>>, p, 0) \in Endpoints /\ Endpoint("v6", <<h, l>>, p, s) \in Endpoints
<1>1. Endpoint("v4", <<h>>, p, 0) \in EndpointsV4
  BY DEF EndpointsV4
<1>2. Endpoint("v6", <<h, l>>, p, s) \in EndpointsV6
  BY DEF EndpointsV6
<1> QED
  BY <1>1, <1>2 DEF Endpoints

\* An endpoint goes through a sockaddr and back unchanged, but for the scope
\* id, which to_endpoint_v6 does not look at.
LEMMA EndpointRoundTrip ==
  ASSUME NEW ep \in Endpoints
  PROVE  to_endpoint(to_sockaddr(ep)) = [ep EXCEPT !.scope = 0]
<1>1. ntohs(htons(ep.port)) = ep.port
  BY EndpointParts, PortValues, PortRoundTrip
<1>2. CASE ep.family = "v4"
  BY <1>1, <1>2, EndpointParts
     DEF to_endpoint, to_sockaddr, to_sockaddr_v4, to_endpoint_v4, Endpoint
<1>3. CASE ep.family = "v6"
  BY <1>1, <1>3, EndpointParts
     DEF to_endpoint, to_sockaddr, to_sockaddr_v6, to_endpoint_v6, Endpoint
<1> QED
  BY <1>2, <1>3, EndpointParts

\* The part of the peer that remote_endpoint can be trusted with.
LEMMA TruncatedRoundTrip ==
  ASSUME NEW ep \in Endpoints, NEW garbage \in Halves
  PROVE  LET r == to_endpoint(Truncated(to_sockaddr(ep), garbage))
         IN  /\ r \in Endpoints
             /\ ep.family = "v4" => r = ep
             /\ r.family = ep.family /\ r.port = ep.port /\ r.addr[1] = ep.addr[1]
<1> DEFINE r == to_endpoint(Truncated(to_sockaddr(ep), garbage))
<1>1. ntohs(htons(ep.port)) = ep.port /\ ep.port \in Ports
  BY EndpointParts, PortValues, PortRoundTrip
<1>2. CASE ep.family = "v4"
  <2>1. r = Endpoint("v4", ep.addr, ep.port, 0)
    BY <1>1, <1>2 DEF to_endpoint, Truncated, to_sockaddr, to_sockaddr_v4, to_endpoint_v4, Endpoint
  <2> QED
    BY <1>2, <2>1, EndpointParts
<1>3. CASE ep.family = "v6"
  <2>1. PICK h, l \in Halves : ep.addr = <<h, l>>
    BY <1>3, EndpointParts
  <2>2. to_sockaddr(ep) = Endpoint("v6", <<h, l>>, htons(ep.port), htons(ep.scope))
    BY <1>3, <2>1 DEF to_sockaddr, to_sockaddr_v6, Endpoint
  <2>3. Truncated(to_sockaddr(ep), garbage)
           = Endpoint("v6", <<h, garbage>>, htons(ep.port), htons(ep.scope))
    BY <2>2 DEF Truncated, Endpoint
  <2>4. r = Endpoint("v6", <<h, garbage>>, ep.port, 0)
    BY <1>1, <2>3 DEF to_endpoint, to_endpoint_v6, Endpoint
  <2>5. r \in Endpoints
    BY <1>1, <2>4, MadeEndpoint, ScopesAssumption
  <2> QED
    BY <1>3, <2>1, <2>4, <2>5 DEF Endpoint
<1> QED
  BY <1>2, <1>3, EndpointParts

\* do_connect never hands libutp the unspecified address.
LEMMA ConnectableSpecified ==
  ASSUME NEW ep \in Endpoints
  PROVE  Connectable(ep) \in Endpoints /\ ~IsUnspecified(Connectable(ep))
<1>0. ep.port \in Ports /\ 0 \in Halves /\ 1 \in Halves /\ 0 \in Scopes
  BY EndpointParts, HalvesAssumption, ScopesAssumption
<1>1. CASE ~IsUnspecified(ep)
  BY <1>1 DEF Connectable
<1>2. CASE IsUnspecified(ep) /\ ep.family = "v4"
  <2>1. Connectable(ep) = Endpoint("v4", <<1>>, ep.port, 0)
    BY <1>2 DEF Connectable, Loopback
  <2>2. Connectable(ep) \in Endpoints
    BY <1>0, <2>1, MadeEndpoint, Zenon
  <2>3. ~IsUnspecified(Endpoint("v4", <<1>>, ep.port, 0))
    <3>1. Endpoint("v4", <<1>>, ep.port, 0).addr = <<1>>
      BY DEF Endpoint
    <3>2. 1 \in DOMAIN <<1>> /\ <<1>>[1] # 0
      OBVIOUS
    <3> QED
      BY <3>1, <3>2 DEF IsUnspecified
  <2> QED
    BY <2>1, <2>2, <2>3
<1>3. CASE IsUnspecified(ep) /\ ep.family = "v6"
  <2>1. Connectable(ep) = Endpoint("v6", <<0, 1>>, ep.port, 0)
    BY <1>3 DEF Connectable, Loopback
  <2>2. Connectable(ep) \in Endpoints
    BY <1>0, <2>1, MadeEndpoint, Zenon
  <2>3. ~IsUnspecified(Endpoint("v6", <<0, 1>>, ep.port, 0))
    <3>1. Endpoint("v6", <<0, 1>>, ep.port, 0).addr = <<0, 1>>
      BY DEF Endpoint
    <3>2. 2 \in DOMAIN <<0, 1>> /\ <<0, 1>>[2] # 0
      OBVIOUS
    <3> QED
      BY <3>1, <3>2 DEF IsUnspecified
  <2> QED
    BY <2>1, <2>2, <2>3
<1> QED
  BY <1>1, <1>2, <1>3, EndpointParts

-----------------------------------------------------------------------------
(***************************************************************************)
(* The inductive invariant: libutp has the sockaddr of the endpoint that   *)
(* was named, and nothing is sent or reported without one.                 *)
(***************************************************************************)

Consistent ==
    /\ peer = Nil => sent = Nil /\ reported = Nil
    /\ peer # Nil => /\ named \in Endpoints
                     /\ ~IsUnspecified(named)
                     /\ peer = to_sockaddr(named)

IInv == Consistent /\ PeerKept

LEMMA SentSpecified ==
  ASSUME NEW ep \in Endpoints, ~IsUnspecified(ep)
  PROVE  ~IsUnspecified([ep EXCEPT !.scope = 0])
<1>1. [ep EXCEPT !.scope = 0].addr = ep.addr
  BY EndpointParts DEF Endpoint
<1> QED
  BY <1>1 DEF IsUnspecified

LEMMA IInvNext == IInv /\ [Next]_vars => IInv'
<1> SUFFICES ASSUME IInv, [Next]_vars PROVE IInv'
  OBVIOUS
<1> USE DEF IInv, Consistent
<1>1. ASSUME NEW ep \in Endpoints, Connect(ep) PROVE IInv'
  BY <1>1, ConnectableSpecified DEF Connect, PeerKept
<1>2. ASSUME NEW ep \in Endpoints, Accept(ep) PROVE IInv'
  BY <1>2 DEF Accept, PeerKept
<1>3. ASSUME SendTo PROVE IInv'
  BY <1>3, EndpointRoundTrip, SentSpecified DEF SendTo, PeerKept
<1>4. ASSUME NEW garbage \in Halves, RemoteEndpoint(garbage) PROVE IInv'
  BY <1>4, TruncatedRoundTrip DEF RemoteEndpoint, PeerKept
<1>5. ASSUME Reset PROVE IInv'
  BY <1>5 DEF Reset, PeerKept
<1>6. ASSUME UNCHANGED vars PROVE IInv'
  BY <1>6 DEF vars, PeerKept
<1> QED
  BY <1>1, <1>2, <1>3, <1>4, <1>5, <1>6 DEF Next

\* For all 2^16 ports, every address and every scope id, a connection's
\* packets go to the endpoint it was made to or accepted from, and
\* remote_endpoint returns what fits into its sockaddr.
THEOREM PeersKept == Spec => []PeerKept
<1>1. Init => IInv
  BY DEF Init, IInv, Consistent, PeerKept
<1>2. IInv => PeerKept
  BY DEF IInv
<1> QED
  BY <1>1, <1>2, IInvNext, PTL DEF Spec

=============================================================================
