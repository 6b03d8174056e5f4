------------------------------- MODULE Chord -------------------------------
(***************************************************************************)
(* The transport of a Chord ring over channels (_dht/chord/chord.go and    *)
(* stream.go).  A virtual node names its host by a hashname only; the      *)
(* transport keeps the table that leads from a hashname to the address an  *)
(* endpoint can open a channel to, and every message carries the addresses *)
(* of the virtual nodes in it.  The ring itself (armon/go-chord) calls the *)
(* transport on virtual nodes it has heard of and answers for its own.     *)
(***************************************************************************)
EXTENDS Naturals, Functions

CONSTANTS
  None,        \* nil
  Hosts,       \* hashnames; an address is the hashname it is of
  Ids,         \* ids of virtual nodes
  Addressed,   \* the endpoints whose LocalAddr returns an address
  Chunk,       \* 1000: the bytes of a packet
  Sizes,       \* sizes of a JSON text
  MaxCalls     \* bound: calls made

ASSUME ChordAssumption == None \notin Hosts

Vnode == [id : Ids, host : Hosts]

VARIABLES
  ring,          \* each ring: "none", "joining", "up"
  addressTable,  \* each transport: the hashnames it has the address of
  localVnodes,   \* each transport: its virtual nodes with a handler
  heardOf,       \* each ring (external): the virtual nodes it has heard of
  call,          \* the call each ring makes, or None
  callsMade,     \* the number of calls made
  panicked       \* hosts that dereferenced a nil address

chordVars == <<ring, addressTable, localVnodes, heardOf, call, callsMade, panicked>>

-----------------------------------------------------------------------------
(* stream.go: a JSON text goes out in packets and is put together again.   *)

WriteText(size) ==
  [i \in 1..((size + Chunk - 1) \div Chunk) |->
     IF i * Chunk <= size THEN Chunk ELSE size - (i - 1) * Chunk]

\* The decoder has its value when the packets it read hold the whole text.
ReadText(packets, size) == FoldFunction(+, 0, packets) = size

-----------------------------------------------------------------------------
(* Virtual nodes with and without the address of their host.               *)

completeVnode(h, vn) ==
  IF vn = None THEN None
  ELSE [Id |-> vn.id, Addr |-> IF vn.host \in addressTable[h] THEN vn.host ELSE None]

completeVnodes(h, vns) == {completeVnode(h, vn) : vn \in vns}

internalVnode(c) == IF c = None THEN None ELSE [id |-> c.Id, host |-> c.Addr]

internalVnodes(cs) == {internalVnode(c) : c \in cs}

Dereferences(cs) == \E c \in cs : c # None /\ c.Addr = None

\* Mutant of Learn: the addresses in a message are not kept.
LearnNoAddress(h, cs) ==
  IF Dereferences(cs) THEN panicked' = panicked \cup {h} /\ UNCHANGED <<addressTable, heardOf>>
  ELSE /\ heardOf' = [heardOf EXCEPT ![h] = @ \cup (internalVnodes(cs) \ {None})]
       /\ UNCHANGED <<addressTable, panicked>>

\* What internalVnode and internalVnodes do to the table; the ring hears of the nodes.
Learn(h, cs) ==
  IF Dereferences(cs) THEN panicked' = panicked \cup {h} /\ UNCHANGED <<addressTable, heardOf>>
  ELSE /\ addressTable' = [addressTable EXCEPT ![h] = @ \cup {c.Addr : c \in cs \ {None}}]
       /\ heardOf' = [heardOf EXCEPT ![h] = @ \cup (internalVnodes(cs) \ {None})]
       /\ UNCHANGED panicked

-----------------------------------------------------------------------------
(* Create, Join, Register and Stop.                                        *)

newTransport(h, addrs) ==
  /\ addressTable' = [addressTable EXCEPT ![h] = (Addressed \cap {h}) \cup addrs]
  /\ localVnodes' = [localVnodes EXCEPT ![h] = {}]
  /\ heardOf' = [heardOf EXCEPT ![h] = {}]

CreateRing(h) ==
  /\ ring[h] = "none"
  /\ newTransport(h, {})
  /\ ring' = [ring EXCEPT ![h] = "up"]
  /\ UNCHANGED <<call, callsMade, panicked>>

\* The ring's first call, ListVnodes, follows.
JoinRing(h, existing) ==
  /\ ring[h] = "none" /\ existing # h /\ ring[existing] = "up"
  /\ newTransport(h, {existing})
  /\ ring' = [ring EXCEPT ![h] = "joining"]
  /\ UNCHANGED <<call, callsMade, panicked>>

RegisterVnode(h, vn) ==
  /\ ring[h] = "up" /\ vn.host = h
  /\ localVnodes' = [localVnodes EXCEPT ![h] = @ \cup {vn}]
  /\ heardOf' = [heardOf EXCEPT ![h] = @ \cup {vn}]
  /\ UNCHANGED <<ring, addressTable, call, callsMade, panicked>>

\* The ring leaves and shuts down; the transport and its handlers stay.
StopRing(h) ==
  /\ ring[h] = "up" /\ call[h] = None
  /\ ring' = [ring EXCEPT ![h] = "none"]
  /\ UNCHANGED <<addressTable, localVnodes, heardOf, call, callsMade, panicked>>

-----------------------------------------------------------------------------
(* Calls.  Each looks the address up, opens a channel of the call's type   *)
(* and writes a request; without an address it returns ErrNoAddress.       *)

CanCall(h) == call[h] = None /\ callsMade < MaxCalls /\ h \notin panicked

lookupAddr(h, hn) == hn \in addressTable[h]

OpenCall(h, hn, typ, target, self, size) ==
  /\ CanCall(h)
  /\ callsMade' = callsMade + 1
  /\ call' = [call EXCEPT ![h] =
       [to |-> hn, type |-> typ, target |-> target, self |-> self, sent |-> WriteText(size),
        size |-> size, at |-> IF lookupAddr(h, hn) THEN "sent" ELSE "ErrNoAddress",
        alive |-> FALSE, res |-> {}]]
  /\ UNCHANGED <<ring, addressTable, localVnodes, heardOf, panicked>>

ListVnodes(h, hn) == OpenCall(h, hn, "chord.list", None, None, 0)

Ping(h, vn) == OpenCall(h, vn.host, "chord.ping", vn.id, None, 0)

GetPredecessor(h, vn) == OpenCall(h, vn.host, "chord.predecessor.get", vn.id, None, 0)

Notify(h, target, self, size) ==
  OpenCall(h, target.host, "chord.notify", target.id, completeVnode(h, self), size)

FindSuccessors(h, vn, size) ==
  OpenCall(h, vn.host, "chord.successors.find", vn.id, None, size)

ClearPredecessor(h, target, self, size) ==
  OpenCall(h, target.host, "chord.predecessor.clear", target.id, completeVnode(h, self), size)

SkipSuccessor(h, target, self, size) ==
  OpenCall(h, target.host, "chord.successor.skip", target.id, completeVnode(h, self), size)

\* A ring calls on the virtual nodes of other hosts that it has heard of, for its own.
RingCalls(h) ==
  \/ ring[h] = "joining" /\ \E hn \in addressTable[h] \ {h} : ListVnodes(h, hn)
  \/ /\ ring[h] = "up"
     /\ \E vn \in {v \in heardOf[h] : v.host # h}, self \in localVnodes[h], size \in Sizes :
          \/ Ping(h, vn) \/ GetPredecessor(h, vn) \/ FindSuccessors(h, vn, size)
          \/ Notify(h, vn, self, size)
          \/ ClearPredecessor(h, vn, self, size) \/ SkipSuccessor(h, vn, self, size)

-----------------------------------------------------------------------------
(* Handlers, at the host the channel leads to.  One that finds no virtual  *)
(* node, or gets an error from it, closes the channel without an answer.   *)

lookupRPC(h, id) == \E vn \in localVnodes[h] : vn.id = id

Handles(h, c, typ) ==
  /\ call[c] # None /\ call[c].at = "sent" /\ call[c].to = h /\ call[c].type = typ
  /\ h \notin panicked
  /\ ReadText(call[c].sent, call[c].size)

AnswerCall(c, alive, res, size) ==
  call' = [call EXCEPT ![c].at = "answered", ![c].alive = alive, ![c].res = res,
                       ![c].sent = WriteText(size), ![c].size = size]

CloseCall(c) == call' = [call EXCEPT ![c].at = "closed"]

HandlerKeeps == UNCHANGED <<ring, localVnodes, callsMade>>

\* The list is read without the lock: a node that is being registered may be in it or not.
handleListVnodes(h, c, size) ==
  /\ Handles(h, c, "chord.list")
  /\ AnswerCall(c, FALSE, completeVnodes(h, localVnodes[h]), size)
  /\ UNCHANGED <<addressTable, heardOf, panicked>> /\ HandlerKeeps

handlePing(h, c) ==
  /\ Handles(h, c, "chord.ping")
  /\ AnswerCall(c, lookupRPC(h, call[c].target), {}, 0)
  /\ UNCHANGED <<addressTable, heardOf, panicked>> /\ HandlerKeeps

handleGetPredecessor(h, c, size) ==
  /\ Handles(h, c, "chord.predecessor.get")
  /\ \/ CloseCall(c)
     \/ /\ lookupRPC(h, call[c].target)
        /\ \E vn \in heardOf[h] \cup {None} : AnswerCall(c, FALSE, {completeVnode(h, vn)}, size)
  /\ UNCHANGED <<addressTable, heardOf, panicked>> /\ HandlerKeeps

\* The ring answers with successors it knows; the answer has the addresses that the
\* transport has once the caller is in its table.
handleNotify(h, c, size) ==
  /\ Handles(h, c, "chord.notify")
  /\ \/ /\ ~lookupRPC(h, call[c].target)
        /\ CloseCall(c)
        /\ UNCHANGED <<addressTable, heardOf, panicked>>
     \/ /\ lookupRPC(h, call[c].target)
        /\ Learn(h, {call[c].self})
        /\ \/ CloseCall(c)
           \/ /\ h \notin panicked'
              /\ \E vns \in SUBSET heardOf[h] : AnswerCall(c, FALSE, completeVnodes(h, vns), size)
  /\ HandlerKeeps

\* Here a host without the virtual node answers with the empty list.
handleFindSuccessors(h, c, size) ==
  /\ Handles(h, c, "chord.successors.find")
  /\ IF lookupRPC(h, call[c].target)
     THEN \/ CloseCall(c)
          \/ \E vns \in SUBSET heardOf[h] : AnswerCall(c, FALSE, completeVnodes(h, vns), size)
     ELSE AnswerCall(c, FALSE, {}, size)
  /\ UNCHANGED <<addressTable, heardOf, panicked>> /\ HandlerKeeps

handleClearPredecessor(h, c) ==
  /\ Handles(h, c, "chord.predecessor.clear")
  /\ CloseCall(c)
  /\ IF lookupRPC(h, call[c].target) THEN Learn(h, {call[c].self})
     ELSE UNCHANGED <<addressTable, heardOf, panicked>>
  /\ HandlerKeeps

handleSkipSuccessor(h, c) ==
  /\ Handles(h, c, "chord.successor.skip")
  /\ CloseCall(c)
  /\ IF lookupRPC(h, call[c].target) THEN Learn(h, {call[c].self})
     ELSE UNCHANGED <<addressTable, heardOf, panicked>>
  /\ HandlerKeeps

\* The channel breaks: the caller gets an error.
BreakCall(c) ==
  /\ call[c] # None /\ call[c].at \in {"sent", "answered"}
  /\ CloseCall(c)
  /\ UNCHANGED <<addressTable, heardOf, panicked>> /\ HandlerKeeps

\* The caller has its answer or an error.  A ring that cannot list does not join.
ReturnCall(c) ==
  /\ call[c] # None /\ call[c].at # "sent"
  /\ call' = [call EXCEPT ![c] = None]
  /\ IF call[c].at = "answered" /\ ReadText(call[c].sent, call[c].size)
     THEN Learn(c, call[c].res) ELSE UNCHANGED <<addressTable, heardOf, panicked>>
  /\ ring' = [ring EXCEPT ![c] =
       IF @ # "joining" THEN @ ELSE IF call[c].at = "answered" THEN "up" ELSE "none"]
  /\ UNCHANGED <<localVnodes, callsMade>>

-----------------------------------------------------------------------------
ChordInit ==
  /\ ring = [h \in Hosts |-> "none"]
  /\ addressTable = [h \in Hosts |-> {}]
  /\ localVnodes = [h \in Hosts |-> {}]
  /\ heardOf = [h \in Hosts |-> {}]
  /\ call = [h \in Hosts |-> None]
  /\ callsMade = 0
  /\ panicked = {}

ChordNext ==
  \/ \E h \in Hosts : CreateRing(h) \/ StopRing(h) \/ RingCalls(h) \/ BreakCall(h) \/ ReturnCall(h)
  \/ \E h, e \in Hosts : JoinRing(h, e)
  \/ \E h \in Hosts, vn \in Vnode : RegisterVnode(h, vn)
  \/ \E h, c \in Hosts, size \in Sizes :
       \/ handleListVnodes(h, c, size) \/ handlePing(h, c) \/ handleGetPredecessor(h, c, size)
       \/ handleNotify(h, c, size) \/ handleFindSuccessors(h, c, size)
       \/ handleClearPredecessor(h, c) \/ handleSkipSuccessor(h, c)

ChordSpec == ChordInit /\ [][ChordNext]_chordVars

-----------------------------------------------------------------------------
\* Whatever way a ring heard of a virtual node, from a list, a notification, a
\* predecessor or successors passed on by a third host, its transport can call it: the
\* address of the host came along, so no call returns ErrNoAddress and no message holds
\* a node without address, which would crash its reader (chord.go, internalVnode).
KnownCanBeCalled ==
  /\ \A h \in Hosts : \A vn \in heardOf[h] : lookupAddr(h, vn.host)
  /\ panicked = {}
  /\ \A h \in Hosts : call[h] # None => call[h].at # "ErrNoAddress"
=============================================================================
