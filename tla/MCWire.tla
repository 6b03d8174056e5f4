------------------------------- MODULE MCWire -------------------------------
(***************************************************************************)
(* Model checking of what goes over the wire and where it goes: the packet *)
(* format and the frames of a stream, keys, hashnames and the look-up of a *)
(* URI, addresses, the tree of transports, the connections of a datagram   *)
(* socket, the NAT gateway, the protocols on top (Chord, THTP), the        *)
(* command lines of the tools, their tests, and the texts of keys.  The    *)
(* components are checked side by side: a behaviour runs one of them, and  *)
(* the others do not move.                                                 *)
(***************************************************************************)
EXTENDS Dgram, Chord, Nat, Integers, TLC

CONSTANTS
  Pkts, Buffers, MaxWires,
  Ciphers, Unknown, Chunks,
  Hashnames, IPs, MaxUpdates,
  Ports, MaxPort,
  Base, MaxLen, BufLen, Writers, Readers, MaxMessages,
  numSends, MaxResponses, nAT_TRIES,
  BufSize, Codes, HeadLens, MaxWrites,
  MaxArgs,
  Primes, ByteBits, MaxBytes,
  Tests

VARIABLES
  part,   \* the component that runs
  packet, buffer, sent, refused, panic,
  keys, learned, exchanges,
  srv, records, web, updates, resolver, named,
  bound, announced, known,
  stream, broken, mtxWrite, mtxRead, writer, reader, calls, written, read,
  config, opening, todo, sockets, socketFile, dialled, accepted, denied, loop,
  at, responses, answered, services, questions, tries, res, result,
  req, client, up, down, cut, upEnd, downEnd, got, response, server, sgot, srequest, buf,
  code, asked, wrote, writes,
  tool, argv, parsed, does,
  given, encoded, decoded,
  test, file, step, listening, up2, inbox, answer, cut2, reads, asserted, told

lobVars == <<packet, buffer, sent, refused, panic>>
keysVars == <<keys, learned, exchanges>>
resolveVars == <<srv, records, web, updates, resolver, named>>
addrsVars == <<bound, announced, known>>
framesVars == <<stream, broken, mtxWrite, mtxRead, writer, reader, calls, written, read>>
stackVars == <<config, opening, todo, sockets, socketFile, dialled, accepted, denied, loop>>
gatewayVars == <<at, responses, answered, services, questions, tries, res, result>>
thtpVars == <<req, client, up, down, cut, upEnd, downEnd, got, response, server, sgot,
              srequest, buf, code, asked, wrote, writes>>
toolsVars == <<tool, argv, parsed, does>>
encodingsVars == <<given, encoded, decoded>>
scenarioVars == <<test, file, step, listening, up2, inbox, answer, cut2, reads, asserted, told>>
vars == <<part, lobVars, keysVars, resolveVars, addrsVars, framesVars, stackVars, dgramVars,
          halfPipeVars, natVars, gatewayVars, chordVars, thtpVars, toolsVars,
          encodingsVars, scenarioVars>>

-----------------------------------------------------------------------------
(* The values of the components' constants.                                *)

Num(n) == [num |-> n, go |-> "int"]
Str(s) == [str |-> s]
Text == Str(<<"}", "q", ",", "esc", "ctl", "<">>)
List == [arr |-> <<Num(1), Num(2)>>, go |-> "uint32"]
Nested == [key |-> <<"q">>, val |-> [arr |-> <<Str(<<"]", "{">>), Num(-1)>>, go |-> "interface{}"]]
Values == {Num(1), Text, [bool |-> TRUE], List, Nested}
Header(c, type, end, seq, ack, miss, extra) ==
  [bytes |-> <<>>, c |-> c, type |-> type, end |-> end, seq |-> seq, ack |-> ack,
   miss |-> miss, extra |-> extra]
NoExtra == [k \in {} |-> None]
Extra(v, w) == Header({}, {}, {}, {}, {}, {}, (<<"a">> :> v) @@ (<<"q", "hi">> :> w))
Headers ==
  {Extra(Text, Num(1)), Extra([bool |-> TRUE], List), Extra(Nested, Num(1)),
   [Header({}, {}, {}, {}, {}, {}, NoExtra) EXCEPT !.bytes = <<"1">>],
   Header({3}, {<<"a", "q", "nl">>}, {TRUE}, {1}, {0}, {<<1, 2>>}, NoExtra),
   Header({3}, {<<"ctl">>}, {FALSE}, {1}, {0}, {<<>>}, NoExtra)}
Bodies == {<<>>, <<"a", "}">>}

URIs == [protocol : {None, "app"}, user : {None}, canonical : {None, "host", "public"},
         session : {None, "s"}, token : {None}]

IP(family, host) == [fam |-> family, host |-> host, len |-> 16]
Interfaces == {IP(4, 1), IP(6, 1), IP(4, 2), IP(6, 4), IP(4, 0)}
Scope == [h \in 0..4 |-> <<"unspecified", "global", "loopback", "link-local", "multicast">>[h + 1]]
Transports ==
  {[net |-> n, ip |-> IP(f, h)] :
     n \in {"udp4", "udp6", "tcp4", "tcp6"}, f \in {4, 6}, h \in {0, 1}}
  \cup {[net |-> "unix", name |-> ""], [net |-> "unix", name |-> "sock"], [net |-> "inproc", id |-> 1], [net |-> "peer", router |-> 2]}

Leaf(n) == [is |-> "leaf", net |-> n]
Join(subs) == [is |-> "mux", subs |-> subs]
Natted(c) == [is |-> "nat", sub |-> c]
Behind(c, r) == [is |-> "fw", sub |-> c, rule |-> r]
Addr(n, h) == [net |-> n, host |-> h]
StackAddrs == {Addr("udp4", 1), Addr("udp4", 2), Addr("tcp6", 1), Addr("unix", 1)}
Only2 == [is |-> "func", of |-> {Addr("udp4", 2)}]
Rules ==
  {[is |-> "func", of |-> {Addr("udp4", 1), Addr("tcp6", 1)}], [is |-> "negate", of |-> Only2],
   [is |-> "every", of |-> <<[is |-> "all"], Only2>>],
   [is |-> "any", of |-> <<[is |-> "none"], Only2>>]}
Configs ==
  {Leaf("tcp4"), Natted(Leaf("udp4")), Join(<<Leaf("udp4"), Leaf("tcp6")>>),
   Join(<<Natted(Leaf("udp4")), Leaf("unix")>>)}
  \cup {Behind(Join(<<Leaf("udp4"), Leaf("tcp6")>>), r) : r \in Rules}
  \cup {Join(<<Behind(Leaf("tcp6"), r), Leaf("udp4")>>) : r \in Rules}

NatSockets == {[proto |-> "udp", port |-> 7]}

Answer(target, location, usn) ==
  [status |-> 200, st |-> target, location |-> location, usn |-> usn]
Service(t, ref, nats) == [type |-> t, ref |-> ref, nat |-> nats]
Devices ==
  {[answer |-> Answer("WANConnectionDevice:1", "l1", "u1"), base |-> None,
    tree |-> [services |-> <<Service("WANIPConnection:1", "bad", "1")>>,
              devices |-> <<[devices |-> <<>>,
                             services |-> <<Service("WANPPPConnection:1", "/1", "yes")>>]>>]],
   [answer |-> Answer("WANConnectionDevice:2", "l2", ""), base |-> "b2",
    tree |-> [services |-> <<Service("Layer3", "/2", "1"),
                             Service("WANIPConnection:2", "/3", "1")>>, devices |-> <<>>]]}
Networks == {[addr |-> 1, net |-> "n1", private |-> TRUE], [addr |-> 2, net |-> "n2", private |-> FALSE]}

Requests ==
  [head : {1, 4}, body : {None} \cup {[j \in 1..k |-> [body |-> 0, at |-> j]] : k \in {0, 1, 3}}]

Long(name, value) == [long |-> name, val |-> value]
Tokens ==
  {[word |-> w] : w \in {"list", "sanity", "worker"}}
  \cup {Long(<<n>>, None) : n \in {"help", "ver", "out", "x"}}
  \cup {Long(<<"out", "put">>, [word |-> "list"]), [sym |-> "--"]}
  \cup {[shorts |-> ls] : ls \in {<<"h">>, <<"o">>, <<"o", "h">>}}
tests == {[name |-> "sanity", roles |-> {"worker", "driver"}]}

-----------------------------------------------------------------------------
Lob == INSTANCE Lob WITH Wrap <- 4, MinJSON <- 7
Keys == INSTANCE Keys
Resolve == INSTANCE Resolve
Addresses == INSTANCE Addrs WITH transport <- bound
Frames == INSTANCE Frames WITH Timeouts <- FALSE, Messages <- {<<>>, <<1>>, <<1, 0, 1>>}
Stack == INSTANCE Stack WITH Addrs <- StackAddrs, pc <- opening, file <- socketFile,
           refused <- denied
Gateway == INSTANCE Gateway WITH asked <- questions
Thtp == INSTANCE Thtp WITH Wrap <- 8, broken <- cut
Tools == INSTANCE Tools
Encodings == INSTANCE Encodings
Scenario == INSTANCE Scenario WITH up <- up2, broken <- cut2

Parts == {"lob", "keys", "resolve", "addrs", "frames", "stack", "dgram", "halfPipe", "nat",
          "gateway", "chord", "thtp", "tools", "encodings", "scenario"}

\* A component that does not run has one initial state.
WireInit ==
  /\ part \in Parts
  /\ part = "stack" \/ (config = Leaf("tcp4") /\ socketFile = FALSE)
  /\ part = "halfPipe" \/ usesDeadlines = TRUE
  /\ part = "nat" \/ lan = CHOOSE ip \in LanIPs : TRUE
  /\ part = "tools" \/ (tool = "test" /\ argv = <<>>)
  /\ part = "encodings" \/ given = [bytes |-> 0]
  /\ part = "scenario" \/ (test = "sanity" /\ file = "none")
  /\ Lob!Init /\ Keys!Init /\ Resolve!Init /\ Addresses!Init /\ Frames!Init /\ Stack!Init
  /\ DgramInit /\ HalfPipeInit /\ NatInit /\ Gateway!Init /\ ChordInit /\ Thtp!Init
  /\ Tools!Init /\ Encodings!Init /\ Scenario!Init

Only(p) ==
  /\ part = p /\ UNCHANGED part
  /\ p # "lob" => UNCHANGED lobVars
  /\ p # "keys" => UNCHANGED keysVars
  /\ p # "resolve" => UNCHANGED resolveVars
  /\ p # "addrs" => UNCHANGED addrsVars
  /\ p # "frames" => UNCHANGED framesVars
  /\ p # "stack" => UNCHANGED stackVars
  /\ p # "dgram" => UNCHANGED dgramVars
  /\ p # "halfPipe" => UNCHANGED halfPipeVars
  /\ p # "nat" => UNCHANGED natVars
  /\ p # "gateway" => UNCHANGED gatewayVars
  /\ p # "chord" => UNCHANGED chordVars
  /\ p # "thtp" => UNCHANGED thtpVars
  /\ p # "tools" => UNCHANGED toolsVars
  /\ p # "encodings" => UNCHANGED encodingsVars
  /\ p # "scenario" => UNCHANGED scenarioVars

LobStep == Only("lob") /\ Lob!Next
KeysStep == Only("keys") /\ Keys!Next
ResolveStep == Only("resolve") /\ Resolve!Next
AddrsStep == Only("addrs") /\ Addresses!Next
FramesStep == Only("frames") /\ Frames!Next
StackStep == Only("stack") /\ Stack!Next
DgramStep == Only("dgram") /\ DgramNext
HalfPipeStep == Only("halfPipe") /\ HalfPipeNext
NatStep == Only("nat") /\ NatNext
GatewayStep == Only("gateway") /\ Gateway!Next
ChordStep == Only("chord") /\ ChordNext
ThtpStep == Only("thtp") /\ Thtp!Next
ToolsStep == Only("tools") /\ Tools!Next
EncodingsStep == Only("encodings") /\ Encodings!Next
ScenarioStep == Only("scenario") /\ Scenario!Next

WireNext ==
  \/ LobStep \/ KeysStep \/ ResolveStep \/ AddrsStep \/ FramesStep \/ StackStep \/ DgramStep
  \/ HalfPipeStep \/ NatStep \/ GatewayStep \/ ChordStep \/ ThtpStep \/ ToolsStep
  \/ EncodingsStep \/ ScenarioStep

WireSpec == WireInit /\ [][WireNext]_vars

-----------------------------------------------------------------------------
(* Properties, beside those of Dgram, Chord and Nat.                       *)

\* What is read is what was written: a packet that is decoded has the header and the body
\* of the one that was encoded (lob/coder.go, header_coder.go), messages leave a stream
\* connection whole and in order (tcp_transport.go, Read, Write), a handler and a client of
\* THTP get each other's status and body (round_tripper.go, server.go), and the roles of
\* th-test assert the same tokens (test_channel_reliable.go).
ReadIsWritten ==
  /\ Lob!DecodedIsSent /\ Frames!FramesArriveWhole /\ Thtp!MessagesArrive
  /\ Scenario!AssertsAgree

\* However an endpoint learns of another, it has the hashname and the keys of the one that
\* was named (cipherset/map.go, hashname.go, identity.go, resolve_dns.go, resolve_http.go);
\* keys and hashnames are read as they were written (eccp.go, base32util).
NamesAgree ==
  Keys!HashnamesAgree /\ Resolve!ResolvedIsNamed /\ Encodings!DecodedIsEncoded

\* The tools do what their usage sections say (docopt.go, Parse; the main functions).
UsageIsFollowed == Tools!UsageIsFollowed

\* Announced addresses are decoded to what they were (udp_addr.go, tcp_addr.go, registry.go).
AnnouncedIsKnown == Addresses!AnnouncedIsKnown

\* A tree of transports dials what one of its leaves dials and lets nothing through that a
\* firewall denies; closed, it can be opened again (mux_transport.go, fw.go, rules.go,
\* unix_transport.go).
StackConnects == Stack!StackConnects

\* The gateway in use does NAT, and was asked once (upnp.go, ssdp.go).
GatewayDoesNAT == Gateway!GatewayDoesNAT

-----------------------------------------------------------------------------
\* Only the tree of transports runs.
StackSpec == WireInit /\ part = "stack" /\ [][StackStep]_vars

\* The accept loop of an endpoint returns when its transport is closed: "io.EOF is returned
\* when the transport is closed" (transport.go, Transport.Accept).
CloseEndsLoop == Stack!CloseEndsLoop
=============================================================================
