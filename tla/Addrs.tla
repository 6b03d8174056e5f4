-------------------------------- MODULE Addrs --------------------------------
(***************************************************************************)
(* Addresses on their way from the endpoint that is reachable at them to   *)
(* the one that dials them: the addresses of a transport (Addrs of udp,    *)
(* tcp, unix, inproc and nat), their JSON and their text, the registry     *)
(* that decodes and resolves them (transports/registry.go), EqualAddr, and *)
(* the keys of connections.                                                *)
(*                                                                         *)
(* An IP is its family, its host and the length of its slice: net.IP holds *)
(* an IPv4 address in 4 bytes or, mapped to IPv6, in 16.                   *)
(***************************************************************************)
EXTENDS Integers

CONSTANTS
  Interfaces,  \* IPs of the host's interfaces
  Scope,       \* of each host: "global", "loopback", "link-local", "multicast", "unspecified"
  Ports,       \* ports that the system may choose
  MaxPort,     \* 65535
  Transports   \* what may be opened: network, and the IP, name or number it is bound to

Families == [udp4 |-> 4, tcp4 |-> 4, udp6 |-> 6, tcp6 |-> 6]

VARIABLES
  transport,  \* of the first endpoint, or NotOpen
  announced,  \* the address that was told last, with what the second endpoint made of it
  known       \* the second's addresses, as in its address book

vars == <<transport, announced, known>>

NotOpen == [net |-> "none"]
ErrInvalidAddr == [net |-> "error"]

-----------------------------------------------------------------------------
(* net.IP                                                                  *)

To16(ip) == [ip EXCEPT !.len = 16]
IsIP4(ip) == ip.fam = 4
IsUnspecified(ip) == Scope[ip.host] = "unspecified"
\* The text of an IP does not depend on its length, and is parsed to 16 bytes.
ParseIP(text) == [fam |-> text.fam, host |-> text.host, len |-> 16]
IPString(ip) == [fam |-> ip.fam, host |-> ip.host]

-----------------------------------------------------------------------------
(* Addresses                                                               *)

Udp == {"udp4", "udp6"}
Tcp == {"tcp4", "tcp6"}

WrapUDP(ip, port) == [net |-> IF IsIP4(ip) THEN "udp4" ELSE "udp6", ip |-> ip, port |-> port]
WrapTCP(ip, port) == [net |-> IF IsIP4(ip) THEN "tcp4" ELSE "tcp6", ip |-> ip, port |-> port]
WrapAddr(net, ip, port) == IF net \in Udp THEN WrapUDP(ip, port) ELSE WrapTCP(ip, port)

\* Mutant of Key: the bytes of the IP as they are.
RawKey(a) == <<a.ip, a.port % (MaxPort + 1)>>

\* connKey: sixteen bytes of IP and two of port.
Key(a) == <<To16(a.ip), a.port % (MaxPort + 1)>>

\* nat.Addr
MakeGlobal(a, ip, port) == WrapAddr(a.net, ip, port)

MarshalUDP(a) == [type |-> a.net, ip |-> IPString(a.ip), port |-> a.port]
MarshalTCP(a) == [type |-> a.net, ip |-> IPString(a.ip), port |-> a.port]
MarshalUnix(a) == [type |-> "unix", name |-> a.name]
MarshalInproc(a) == [type |-> "inproc", id |-> a.id]
MarshalPeer(a) == [type |-> "peer", hn |-> a.router]

MarshalJSON(a) ==
  CASE a.net \in Udp      -> MarshalUDP(a)
    [] a.net \in Tcp      -> MarshalTCP(a)
    [] a.net = "unix"   -> MarshalUnix(a)
    [] a.net = "inproc" -> MarshalInproc(a)
    [] a.net = "peer"   -> MarshalPeer(a)

\* A type takes addresses of its family with a port that is neither zero nor the last.
UnmarshalUDP(desc) ==
  LET a == WrapUDP(ParseIP(desc.ip), desc.port)
  IN IF IsUnspecified(a.ip) \/ desc.port <= 0 \/ desc.port >= MaxPort \/ a.net # desc.type
     THEN ErrInvalidAddr ELSE a

UnmarshalTCP(desc) ==
  LET a == WrapTCP(ParseIP(desc.ip), desc.port)
  IN IF IsUnspecified(a.ip) \/ desc.port <= 0 \/ desc.port >= MaxPort \/ a.net # desc.type
     THEN ErrInvalidAddr ELSE a

UnmarshalUnix(desc) ==
  IF desc.name = "" THEN ErrInvalidAddr ELSE [net |-> "unix", name |-> desc.name]

UnmarshalInproc(desc) ==
  IF desc.id < 0 THEN ErrInvalidAddr ELSE [net |-> "inproc", id |-> desc.id]

UnmarshalPeer(desc) == [net |-> "peer", router |-> desc.hn]

\* The registry: a type per network.
DecodeAddr(desc) ==
  CASE desc.type \in Udp      -> UnmarshalUDP(desc)
    [] desc.type \in Tcp      -> UnmarshalTCP(desc)
    [] desc.type = "unix"   -> UnmarshalUnix(desc)
    [] desc.type = "inproc" -> UnmarshalInproc(desc)
    [] desc.type = "peer"   -> UnmarshalPeer(desc)
    [] OTHER                -> ErrInvalidAddr

\* The resolver of a UDP or TCP network takes an IP of its family, with any port; the
\* IPv4 address it finds has four bytes or sixteen.
ResolveSocket(net, text) ==
  IF text.ip.fam # Families[net] THEN {ErrInvalidAddr}
  ELSE {WrapAddr(net, [ParseIP(text.ip) EXCEPT !.len = n], text.port) :
          n \in IF text.ip.fam = 4 THEN {4, 16} ELSE {16}}

\* The registry: a resolver per network.
ResolveAddr(net, text) ==
  CASE net \in DOMAIN Families -> ResolveSocket(net, text)
    [] net = "unix"   -> {[net |-> "unix", name |-> text.name]}
    [] net = "inproc" -> {[net |-> "inproc", id |-> text.id]}
    [] net = "peer"   -> {[net |-> "peer", router |-> text.hn]}
    [] OTHER          -> {ErrInvalidAddr}

\* String; that of a peer address holds the first eight characters of the hashname.
AddrString(a) ==
  CASE a.net \in DOMAIN Families -> <<"ip", IPString(a.ip), a.port>>
    [] a.net = "unix"   -> <<"unix", a.name>>
    [] a.net = "inproc" -> <<"inproc", a.id>>
    [] a.net = "peer"   -> <<"peer", a.router>>

\* Equal of udpv4 and udpv6; the TCP addresses have none.
EqualIP(a, b) == a.net \in Udp /\ To16(a.ip) = To16(b.ip) /\ a.port = b.port

EqualAddr(a, b) == a.net = b.net /\ (EqualIP(a, b) \/ AddrString(a) = AddrString(b))

-----------------------------------------------------------------------------
(* Transports                                                              *)

\* InterfaceIPs: IPv4 addresses in four bytes.
InterfaceIPs ==
  {[ip EXCEPT !.len = IF ip.fam = 4 THEN 4 ELSE 16] :
     ip \in {i \in Interfaces : Scope[i.host] \in {"global", "loopback"}}}

\* Addrs of udp and tcp: the address the socket is bound to, or one per interface.
SocketAddrs(t) ==
  IF ~IsUnspecified(t.ip) THEN {WrapAddr(t.net, t.ip, t.port)}
  ELSE {a \in {WrapAddr(t.net, ip, t.port) : ip \in InterfaceIPs} : a.net = t.net}

LocalAddrs(t) == IF t.net \in DOMAIN Families THEN SocketAddrs(t) ELSE {t}

\* NormalizeAddr of udp and inproc, the type switches of tcp and unix.
CanDial(net, a) ==
  \/ net = a.net
  \/ net \in Tcp /\ a.net \in Tcp

\* A socket without a name gets a random one.
OpenUnix(t) == [t EXCEPT !.name = IF @ = "" THEN "random" ELSE @]

\* Open checks that the IP is of the network's family.
Open(t, port) ==
  /\ transport = NotOpen
  /\ CASE t.net \in DOMAIN Families ->
              /\ t.ip.fam = Families[t.net]
              /\ transport' = [net |-> t.net, ip |-> t.ip, port |-> port]
       [] t.net = "unix" -> transport' = OpenUnix(t)
       [] OTHER -> transport' = t
  /\ UNCHANGED <<announced, known>>

\* An address is sent to the second endpoint, which adds it to its list unless it has it.
Announce(a) ==
  LET b == DecodeAddr(MarshalJSON(a))
  IN /\ transport # NotOpen
     /\ announced' = {[sent |-> a, got |-> b]}
     /\ known' = IF b = ErrInvalidAddr \/ \E k \in known : EqualAddr(k, b)
                 THEN known ELSE known \cup {b}
     /\ UNCHANGED transport

\* The records of a domain hold an IP and a port, not the family: the resolver of the other
\* family is asked when the first fails.
Lookup(a) ==
  LET text == MarshalJSON(a)
      other == CASE a.net \in Udp -> "udp6" [] a.net \in Tcp -> "tcp6" [] OTHER -> a.net
      first == CASE a.net \in Udp -> "udp4" [] a.net \in Tcp -> "tcp4" [] OTHER -> a.net
      found == ResolveAddr(first, text)
  IN /\ transport # NotOpen
     /\ \E b \in IF ErrInvalidAddr \in found THEN ResolveAddr(other, text) ELSE found :
          /\ announced' = {[sent |-> a, got |-> b]}
          /\ known' = IF b = ErrInvalidAddr \/ \E k \in known : EqualAddr(k, b)
                      THEN known ELSE known \cup {b}
     /\ UNCHANGED transport

\* A datagram comes from the address; the endpoint looks for it in its list.
Receive(a) ==
  /\ transport # NotOpen
  /\ known' = IF \E k \in known : EqualAddr(k, a) THEN known ELSE known \cup {a}
  /\ UNCHANGED <<transport, announced>>

-----------------------------------------------------------------------------

Init == transport = NotOpen /\ announced = {} /\ known = {}

Locals == IF transport = NotOpen THEN {} ELSE LocalAddrs(transport)

\* What a mapping of the NAT device makes of an address.
Globals == {MakeGlobal(a, ip, p) : a \in {b \in Locals : b.net \in DOMAIN Families},
                                   ip \in {i \in Interfaces : Scope[i.host] = "global"}, p \in Ports}

Next ==
  \/ \E t \in Transports, p \in Ports : Open(t, p)
  \/ \E a \in Locals \cup Globals : Announce(a) \/ Lookup(a)
  \/ \E a \in Locals : Receive(a)

Spec == Init /\ [][Next]_vars

-----------------------------------------------------------------------------
(* Properties.                                                             *)

\* An address that an endpoint announces (its port is not the last one) is decoded by
\* its peer to an address that is equal to it, is of its network, has its key and can be
\* dialled by the same transport; what the peer holds are different addresses, so that
\* the address a peer announces is also the one its packets come from (MarshalJSON,
\* DecodeAddr, ResolveAddr, EqualAddr, Key).
AnnouncedIsKnown ==
  /\ \A x \in announced :
       ("port" \in DOMAIN x.sent => x.sent.port < MaxPort)
       => /\ EqualAddr(x.sent, x.got) /\ x.got.net = x.sent.net /\ CanDial(x.sent.net, x.got)
          /\ "ip" \in DOMAIN x.sent => Key(x.sent) = Key(x.got)
          /\ \E k \in known : EqualAddr(k, x.sent)
  /\ \A j, k \in known : j # k =>
       /\ ~EqualAddr(j, k)
       /\ "ip" \in DOMAIN j /\ "ip" \in DOMAIN k /\ j.net = k.net => Key(j) # Key(k)
=============================================================================
