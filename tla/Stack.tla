-------------------------------- MODULE Stack --------------------------------
(***************************************************************************)
(* A transport as applications put it together: the UDP, TCP, UNIX and     *)
(* in-process transports, joined by the mux, behind the NAT transport and  *)
(* the firewall (transports/udp, tcp, unix, inproc, mux, nat, fw), with    *)
(* the accept loop of the endpoint on top.                                 *)
(*                                                                         *)
(* A configuration is a tree.  A leaf is named by its network; an address  *)
(* by its network and its host.                                            *)
(***************************************************************************)
EXTENDS Naturals, Sequences, SequencesExt

CONSTANTS
  Configs,    \* the trees that applications build
  Addrs       \* addresses that are dialled, and that connect

Stream == {"tcp4", "tcp6", "unix"}

VARIABLES
  config,     \* the tree
  pc,         \* of the endpoint: "new", "opening", "open", "closed" or "failed"
  todo,       \* leaves that are still to be opened
  sockets,    \* leaves whose socket is open
  file,       \* the file of the UNIX socket is there
  dialled,    \* the leaf or the error of each address that was dialled
  accepted,   \* addresses whose connection the endpoint has accepted
  refused,    \* addresses whose connection a firewall has closed
  loop        \* acceptConnections: "none", "runs", "returned" or "panic"

vars == <<config, pc, todo, sockets, file, dialled, accepted, refused, loop>>

-----------------------------------------------------------------------------
(* The firewall's rules                                                    *)

\* A negateRule embeds its rule and defines Allow, so Match is the embedded rule's.
\* WhenAll and WhenAny of no rule is the rule None; of one rule, that rule.
RECURSIVE Match(_, _)
Match(rule, a) ==
  CASE rule.is = "all"    -> TRUE
    [] rule.is = "none"   -> FALSE
    [] rule.is = "func"   -> a \in rule.of
    [] rule.is = "negate" -> Match(rule.of, a)
    [] rule.is = "every"  -> rule.of # <<>> /\ \A i \in 1..Len(rule.of) : Match(rule.of[i], a)
    [] rule.is = "any"    -> \E i \in 1..Len(rule.of) : Match(rule.of[i], a)

-----------------------------------------------------------------------------
(* Dial                                                                    *)

Invalid == "invalid address"
Unreachable == "unreachable host"

\* NormalizeAddr of the datagram transports, and the type switches of the others:
\* a TCP transport dials addresses of both families.
Supports(leaf, a) ==
  \/ leaf = a.net
  \/ leaf \in {"tcp4", "tcp6"} /\ a.net \in {"tcp4", "tcp6"}

DialLeaf(leaf, a) == IF Supports(leaf, a) THEN leaf ELSE Invalid

\* Mutant of FirstValid: the mux asks its first transport only.
FirstOnly(results) == IF results = <<>> THEN Invalid ELSE Head(results)

\* The mux goes on after ErrInvalidAddr only.
FirstValid(results) ==
  LET valid == SelectSeq(results, LAMBDA r : r # Invalid)
  IN IF valid = <<>> THEN Invalid ELSE Head(valid)

RECURSIVE Dial(_, _)
Dial(c, a) ==
  CASE c.is = "leaf" -> DialLeaf(c.net, a)
    [] c.is = "mux"  -> FirstValid([i \in 1..Len(c.subs) |-> Dial(c.subs[i], a)])
    [] c.is = "nat"  -> Dial(c.sub, a)
    [] c.is = "fw"   -> IF Match(c.rule, a) THEN Dial(c.sub, a) ELSE Unreachable

-----------------------------------------------------------------------------
(* Accept                                                                  *)

RECURSIVE Leaves(_)
Leaves(c) ==
  CASE c.is = "leaf" -> <<c.net>>
    [] c.is = "mux"  -> FlattenSeq([i \in 1..Len(c.subs) |-> Leaves(c.subs[i])])
    [] OTHER         -> Leaves(c.sub)

\* What becomes of a connection from a to the leaf: a firewall above that does not
\* match its address closes it and accepts the next.
RECURSIVE ComesThrough(_, _, _)
ComesThrough(c, leaf, a) ==
  CASE c.is = "leaf" -> c.net = leaf
    [] c.is = "mux"  -> \E i \in 1..Len(c.subs) : ComesThrough(c.subs[i], leaf, a)
    [] c.is = "nat"  -> ComesThrough(c.sub, leaf, a)
    [] c.is = "fw"   -> ComesThrough(c.sub, leaf, a) /\ Match(c.rule, a)

\* What Accept says when the transport is closed: io.EOF of dgram and of the mux, the
\* error of the listener itself of the stream transports.
LeafError(leaf) == IF leaf \in Stream THEN "use of closed network connection" ELSE "EOF"

RECURSIVE AcceptError(_)
AcceptError(c) ==
  CASE c.is = "leaf" -> LeafError(c.net)
    [] c.is = "mux"  -> "EOF"
    [] OTHER         -> AcceptError(c.sub)

-----------------------------------------------------------------------------
(* The endpoint                                                            *)

\* The sub-transports are opened in turn.  The mux returns the first error, with the
\* sockets before it open.
Open ==
  /\ pc = "new"
  /\ pc' = "opening" /\ todo' = Leaves(config)
  /\ UNCHANGED <<config, sockets, file, dialled, accepted, refused, loop>>

OpenLeaf ==
  /\ pc = "opening" /\ todo # <<>> /\ Head(todo) # "unix"
  /\ \/ sockets' = sockets \cup {Head(todo)} /\ todo' = Tail(todo) /\ UNCHANGED pc
     \/ pc' = "failed" /\ UNCHANGED <<sockets, todo>>
  /\ UNCHANGED <<config, file, dialled, accepted, refused, loop>>

\* The listener makes the file, which must not be there, and Chmod gives it its mode; if
\* that fails the listener is closed and the file removed.
OpenUnix ==
  /\ pc = "opening" /\ todo # <<>> /\ Head(todo) = "unix"
  /\ \/ /\ ~file /\ file' = TRUE
        /\ sockets' = sockets \cup {"unix"} /\ todo' = Tail(todo) /\ UNCHANGED pc
     \/ pc' = "failed" /\ UNCHANGED <<sockets, todo, file>>
  /\ UNCHANGED <<config, dialled, accepted, refused, loop>>

Opened ==
  /\ pc = "opening" /\ todo = <<>>
  /\ pc' = "open" /\ loop' = "runs"
  /\ UNCHANGED <<config, todo, sockets, file, dialled, accepted, refused>>

DialAddr(a) ==
  /\ pc = "open" /\ dialled[a] = "not yet"
  /\ dialled' = [dialled EXCEPT ![a] = Dial(config, a)]
  /\ UNCHANGED <<config, pc, todo, sockets, file, accepted, refused, loop>>

\* A peer at a connects to a leaf of its network.
Arrive(a) ==
  /\ loop = "runs" /\ a.net \in sockets
  /\ IF ComesThrough(config, a.net, a)
     THEN accepted' = accepted \cup {a} /\ UNCHANGED refused
     ELSE refused' = refused \cup {a} /\ UNCHANGED accepted
  /\ UNCHANGED <<config, pc, todo, sockets, file, dialled, loop>>

CloseUnix == file' = (file /\ "unix" \notin sockets)

Close ==
  /\ pc = "open"
  /\ pc' = "closed" /\ sockets' = {} /\ CloseUnix
  /\ UNCHANGED <<config, todo, dialled, accepted, refused, loop>>

\* acceptConnections returns at io.EOF, and panics at any other error.
LoopEnds ==
  /\ loop = "runs" /\ pc = "closed"
  /\ loop' = IF AcceptError(config) = "EOF" THEN "returned" ELSE "panic"
  /\ UNCHANGED <<config, pc, todo, sockets, file, dialled, accepted, refused>>

-----------------------------------------------------------------------------

Init ==
  /\ config \in Configs
  /\ file \in BOOLEAN       \* a program that ended without Close leaves its file
  /\ pc = "new" /\ todo = <<>> /\ sockets = {} /\ loop = "none"
  /\ dialled = [a \in Addrs |-> "not yet"] /\ accepted = {} /\ refused = {}

Next ==
  \/ Open \/ OpenLeaf \/ OpenUnix \/ Opened \/ Close \/ LoopEnds
  \/ \E a \in Addrs : DialAddr(a) \/ Arrive(a)

Spec == Init /\ [][Next]_vars

-----------------------------------------------------------------------------
(* Properties.                                                             *)

\* The rules of the firewalls on the way from the root to a leaf, and whether the
\* tree denies an address anywhere.
RECURSIVE Denies(_, _)
Denies(c, a) ==
  CASE c.is = "leaf" -> FALSE
    [] c.is = "mux"  -> \E i \in 1..Len(c.subs) : Denies(c.subs[i], a)
    [] c.is = "nat"  -> Denies(c.sub, a)
    [] c.is = "fw"   -> ~Match(c.rule, a) \/ Denies(c.sub, a)

\* An address that no firewall of the tree denies is dialled by a transport that
\* supports it, if there is one, wherever it is in the tree; and the connections
\* that are dialled and those that are accepted have passed the same firewalls
\* (Dial and Accept of mux, nat and fw).  A tree with a UNIX socket that was closed
\* can be opened again (Open and Close of unix).
StackConnects ==
  /\ \A a \in Addrs :
       dialled[a] # "not yet" /\ ~Denies(config, a)
       => LET l == Leaves(config)
          IN IF \E i \in 1..Len(l) : Supports(l[i], a)
             THEN Supports(dialled[a], a) ELSE dialled[a] = Invalid
  /\ \A a \in Addrs : dialled[a] = a.net => a \notin refused
  /\ \A a \in accepted : dialled[a] \notin {Invalid}
  /\ pc = "closed" /\ (\E i \in 1..Len(Leaves(config)) : Leaves(config)[i] = "unix") => ~file

\* The accept loop of an endpoint returns when its transport is closed: "io.EOF is
\* returned when the transport is closed" (Transport.Accept).
CloseEndsLoop == loop # "panic"
=============================================================================
