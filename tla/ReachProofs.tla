----------------------------- MODULE ReachProofs -----------------------------
(***************************************************************************)
(* What a host is reached by: the addresses that the hosts of a ring pass  *)
(* on to each other, for any hosts and any number of calls; and the        *)
(* mappings of a NAT gateway, for any addresses and ports and any number   *)
(* of changes of the host and of the gateway.                              *)
(***************************************************************************)
EXTENDS Chord, Nat, TLAPS

-----------------------------------------------------------------------------
(* The address table of a ring's transport.                                *)

\* A virtual node in a message: None, or with the address of its host.
Complete == [Id : Ids, Addr : Hosts] \cup {None}

\* What a call carries: the caller's node on the way there, nodes on the way back.
CallOK(k) ==
  /\ {"to", "at", "self", "res"} \subseteq DOMAIN k
  /\ k.to \in Hosts /\ k.at \in {"sent", "answered", "closed"}
  /\ k.self \in Complete /\ k.res \subseteq Complete

ChordTypes ==
  /\ DOMAIN ring = Hosts
  /\ addressTable \in [Hosts -> SUBSET Hosts]
  /\ localVnodes \in [Hosts -> SUBSET Vnode]
  /\ heardOf \in [Hosts -> SUBSET Vnode]
  /\ DOMAIN call = Hosts

CallsOK == \A h \in Hosts : call[h] # None => CallOK(call[h])

TablesOK ==
  \A h \in Hosts :
    /\ localVnodes[h] \subseteq heardOf[h]
    /\ \A vn \in heardOf[h] : vn.host \in addressTable[h]
    /\ ring[h] # "none" => h \in addressTable[h]

\* The inductive invariant: a ring has the address of whomever it has heard of, and its own;
\* every node in a message has its address.
ChordInv == ChordTypes /\ CallsOK /\ TablesOK /\ panicked = {}

\* A node that a ring has heard of is sent with its address (completeVnode).
LEMMA HeardIsComplete ==
  ASSUME ChordTypes, TablesOK, NEW h \in Hosts, NEW vn \in heardOf[h] \cup {None}
  PROVE  completeVnode(h, vn) \in Complete
<1>1. CASE vn = None
  BY <1>1, Zenon DEF completeVnode, Complete
<1>2. CASE vn # None
  <2>1. vn \in heardOf[h] /\ vn \in Vnode /\ vn.host \in addressTable[h]
    BY <1>2 DEF ChordTypes, TablesOK
  <2>2. vn.id \in Ids /\ vn.host \in Hosts
    BY <2>1 DEF Vnode
  <2>3. completeVnode(h, vn) = [Id |-> vn.id, Addr |-> vn.host]
    BY <1>2, <2>1, Zenon DEF completeVnode
  <2> QED BY <2>2, <2>3 DEF Complete
<1> QED BY <1>1, <1>2

\* The same of a set of nodes (completeVnodes).
LEMMA AllHeardAreComplete ==
  ASSUME ChordTypes, TablesOK, NEW h \in Hosts, NEW vns \in SUBSET heardOf[h]
  PROVE  completeVnodes(h, vns) \subseteq Complete
<1>1. ASSUME NEW vn \in vns PROVE completeVnode(h, vn) \in Complete
  BY HeardIsComplete, Zenon
<1> QED BY <1>1, Zenon DEF completeVnodes

\* What the tables do in a step: none loses an entry, and every node heard of has one.
TablesGrow ==
  /\ addressTable' \in [Hosts -> SUBSET Hosts] /\ heardOf' \in [Hosts -> SUBSET Vnode]
  /\ \A g \in Hosts : /\ addressTable[g] \subseteq addressTable'[g]
                      /\ heardOf[g] \subseteq heardOf'[g]
                      /\ \A vn \in heardOf'[g] : vn.host \in addressTable'[g]

\* A reader of complete nodes has their addresses, and dereferences no nil one
\* (internalVnode, internalVnodes).
LEMMA LearnGrows ==
  ASSUME ChordInv, NEW h \in Hosts, NEW cs \in SUBSET Complete, Learn(h, cs)
  PROVE  TablesGrow /\ panicked' = {}
<1>1. ASSUME NEW c \in cs, c # None PROVE c.Id \in Ids /\ c.Addr \in Hosts
  <2>1. c \in [Id : Ids, Addr : Hosts]
    BY <1>1, Zenon DEF Complete
  <2> QED BY <2>1
<1>2. ~Dereferences(cs)
  BY <1>1, ChordAssumption, Zenon DEF Dereferences
<1>3. /\ addressTable' = [addressTable EXCEPT ![h] = @ \cup {c.Addr : c \in cs \ {None}}]
      /\ heardOf' = [heardOf EXCEPT ![h] = @ \cup (internalVnodes(cs) \ {None})]
      /\ panicked' = panicked
  BY <1>2, Zenon DEF Learn
<1>4. {c.Addr : c \in cs \ {None}} \subseteq Hosts
  BY <1>1, Zenon
<1>5. ASSUME NEW vn \in internalVnodes(cs) \ {None}
      PROVE  vn \in Vnode /\ vn.host \in {c.Addr : c \in cs \ {None}}
  <2>1. PICK c \in cs : vn = internalVnode(c)
    BY <1>5, Zenon DEF internalVnodes
  <2>2. c # None /\ vn = [id |-> c.Id, host |-> c.Addr]
    BY <1>5, <2>1, Zenon DEF internalVnode
  <2>3. vn.host = c.Addr /\ vn \in Vnode
    BY <1>1, <2>2 DEF Vnode
  <2> QED BY <2>2, <2>3, Zenon
<1>6. addressTable \in [Hosts -> SUBSET Hosts] /\ heardOf \in [Hosts -> SUBSET Vnode]
  BY Zenon DEF ChordInv, ChordTypes
<1>7. addressTable' \in [Hosts -> SUBSET Hosts]
  BY <1>3, <1>4, <1>6
<1>8. heardOf' \in [Hosts -> SUBSET Vnode]
  <2>1. internalVnodes(cs) \ {None} \subseteq Vnode
    BY <1>5, Zenon
  <2> QED BY <1>3, <1>6, <2>1
<1>9. ASSUME NEW g \in Hosts
      PROVE  /\ addressTable[g] \subseteq addressTable'[g] /\ heardOf[g] \subseteq heardOf'[g]
             /\ \A vn \in heardOf'[g] : vn.host \in addressTable'[g]
  <2>1. \A vn \in heardOf[g] : vn.host \in addressTable[g]
    BY Zenon DEF ChordInv, TablesOK
  <2>2. CASE g # h
    BY <1>3, <1>6, <2>1, <2>2
  <2>3. CASE g = h
    <3>1. /\ addressTable'[g] = addressTable[g] \cup {c.Addr : c \in cs \ {None}}
          /\ heardOf'[g] = heardOf[g] \cup (internalVnodes(cs) \ {None})
      BY <1>3, <1>6, <2>3, Zenon
    <3> QED BY <1>5, <2>1, <3>1, Zenon
  <2> QED BY <2>2, <2>3
<1> QED BY <1>3, <1>7, <1>8, <1>9, Zenon DEF TablesGrow, ChordInv

\* Tables that do not change do not lose anything.
LEMMA SameTablesGrow ==
  ASSUME ChordInv, UNCHANGED <<addressTable, heardOf>>
  PROVE  TablesGrow
BY Zenon DEF ChordInv, ChordTypes, TablesOK, TablesGrow

\* A call that is made has an address to go to, and carries a complete node (Exchange.Open).
LEMMA OpenedCalls ==
  ASSUME ChordInv, NEW h \in Hosts, NEW hn \in addressTable[h], NEW typ, NEW target,
         NEW self \in Complete, NEW size, OpenCall(h, hn, typ, target, self, size)
  PROVE  ChordInv'
<1>1. UNCHANGED <<ring, addressTable, localVnodes, heardOf, panicked>>
  BY Zenon DEF OpenCall
<1>2. lookupAddr(h, hn) /\ hn \in Hosts
  BY DEF lookupAddr, ChordInv, ChordTypes
<1> DEFINE k == [to |-> hn, type |-> typ, target |-> target, self |-> self,
                 sent |-> WriteText(size), size |-> size, at |-> "sent", alive |-> FALSE,
                 res |-> {}]
<1>3. call' = [call EXCEPT ![h] = k]
  BY <1>2, Zenon DEF OpenCall
<1>4. CallOK(k)
  BY <1>2 DEF CallOK
<1> HIDE DEF k
<1>5. DOMAIN call = Hosts
  BY Zenon DEF ChordInv, ChordTypes
<1>6. CallsOK' /\ DOMAIN call' = Hosts
  BY <1>3, <1>4, <1>5, Zenon DEF CallsOK, ChordInv
<1> QED BY <1>1, <1>6, Zenon DEF ChordInv, ChordTypes, TablesOK

\* Whatever a ring calls, it has the address (ListVnodes to SkipSuccessor).
LEMMA CallsAreSent ==
  ASSUME ChordInv, NEW h \in Hosts, RingCalls(h)
  PROVE  ChordInv'
<1>1. None \in Complete
  BY Zenon DEF Complete
<1>2. CASE \E hn \in addressTable[h] \ {h} : ListVnodes(h, hn)
  BY <1>1, <1>2, OpenedCalls, Zenon DEF ListVnodes
<1>3. CASE \E vn \in {v \in heardOf[h] : v.host # h}, self \in localVnodes[h], size \in Sizes :
             \/ Ping(h, vn) \/ GetPredecessor(h, vn) \/ FindSuccessors(h, vn, size)
             \/ Notify(h, vn, self, size)
             \/ ClearPredecessor(h, vn, self, size) \/ SkipSuccessor(h, vn, self, size)
  <2>1. PICK vn \in heardOf[h], self \in localVnodes[h], size \in Sizes :
             \/ Ping(h, vn) \/ GetPredecessor(h, vn) \/ FindSuccessors(h, vn, size)
             \/ Notify(h, vn, self, size)
             \/ ClearPredecessor(h, vn, self, size) \/ SkipSuccessor(h, vn, self, size)
    BY <1>3, Zenon
  <2>2. vn.host \in addressTable[h] /\ self \in heardOf[h]
    BY Zenon DEF ChordInv, TablesOK
  <2>3. completeVnode(h, self) \in Complete
    BY <2>2, HeardIsComplete, Zenon DEF ChordInv
  <2>4. CASE Ping(h, vn) \/ GetPredecessor(h, vn) \/ FindSuccessors(h, vn, size)
    BY <1>1, <2>2, <2>4, OpenedCalls, Zenon DEF Ping, GetPredecessor, FindSuccessors
  <2>5. CASE \/ Notify(h, vn, self, size) \/ ClearPredecessor(h, vn, self, size)
             \/ SkipSuccessor(h, vn, self, size)
    BY <2>2, <2>3, <2>5, OpenedCalls, Zenon DEF Notify, ClearPredecessor, SkipSuccessor
  <2> QED BY <2>1, <2>4, <2>5
<1> QED BY <1>2, <1>3, Zenon DEF RingCalls

\* A step that lets the tables grow keeps the invariant when it keeps the calls in order.
LEMMA GrowingKeeps ==
  ASSUME ChordInv, TablesGrow, panicked' = {}, UNCHANGED localVnodes,
         DOMAIN ring' = Hosts, \A h \in Hosts : ring'[h] = "none" \/ ring[h] # "none",
         DOMAIN call' = Hosts, CallsOK'
  PROVE  ChordInv'
<1>1. ChordTypes'
  BY Zenon DEF ChordInv, ChordTypes, TablesGrow
<1>2. TablesOK'
  BY Zenon DEF ChordInv, TablesOK, TablesGrow
<1> QED BY <1>1, <1>2, Zenon DEF ChordInv

\* An answer with complete nodes, or none, keeps the calls in order.
LEMMA AnsweredCalls ==
  ASSUME ChordInv, NEW c \in Hosts, call[c] # None,
         \/ CloseCall(c)
         \/ \E alive, size : \E res \in SUBSET Complete : AnswerCall(c, alive, res, size)
  PROVE  DOMAIN call' = Hosts /\ CallsOK'
<1>1. DOMAIN call = Hosts /\ CallOK(call[c])
  BY Zenon DEF ChordInv, ChordTypes, CallsOK
<1>2. PICK k : call' = [call EXCEPT ![c] = k] /\ CallOK(k)
  <2>1. CASE CloseCall(c)
    <3>1. CallOK([call[c] EXCEPT !.at = "closed"])
      BY <1>1 DEF CallOK
    <3>2. call' = [call EXCEPT ![c] = [call[c] EXCEPT !.at = "closed"]]
      BY <2>1 DEF CloseCall
    <3> QED BY <3>1, <3>2
  <2>2. CASE \E alive, size : \E res \in SUBSET Complete : AnswerCall(c, alive, res, size)
    <3>0. PICK alive, size : \E res \in SUBSET Complete : AnswerCall(c, alive, res, size)
      BY <2>2, Zenon
    <3>1. PICK res \in SUBSET Complete : AnswerCall(c, alive, res, size)
      BY <3>0, Zenon
    <3> DEFINE k == [call[c] EXCEPT !.at = "answered", !.alive = alive, !.res = res,
                                    !.sent = WriteText(size), !.size = size]
    <3>2. CallOK(k)
      BY <1>1 DEF CallOK
    <3>3. call' = [call EXCEPT ![c] = k]
      BY <3>1 DEF AnswerCall
    <3> QED BY <3>2, <3>3
  <2> QED BY <2>1, <2>2
<1> QED BY <1>1, <1>2, Zenon DEF ChordInv, CallsOK

\* A new transport has its own address and that of the host it joins, and its ring has
\* heard of nobody (newTransport).
LEMMA NewTransportKeeps ==
  ASSUME Hosts \subseteq Addressed, ChordInv, NEW h \in Hosts, NEW addrs \in SUBSET Hosts,
         newTransport(h, addrs), UNCHANGED <<call, panicked>>,
         NEW s, ring' = [ring EXCEPT ![h] = s]
  PROVE  ChordInv'
<1>1. Addressed \cap {h} = {h}
  BY Zenon
<1>2. /\ addressTable' = [addressTable EXCEPT ![h] = {h} \cup addrs]
      /\ localVnodes' = [localVnodes EXCEPT ![h] = {}]
      /\ heardOf' = [heardOf EXCEPT ![h] = {}]
  BY <1>1, Zenon DEF newTransport
<1>3. ChordTypes /\ TablesOK /\ CallsOK
  BY Zenon DEF ChordInv
<1>4. ChordTypes'
  BY <1>2, <1>3 DEF ChordTypes
<1>5. ASSUME NEW g \in Hosts
      PROVE  /\ localVnodes'[g] \subseteq heardOf'[g]
             /\ \A vn \in heardOf'[g] : vn.host \in addressTable'[g]
             /\ ring'[g] # "none" => g \in addressTable'[g]
  <2>1. CASE g = h
    BY <1>2, <1>3, <2>1 DEF ChordTypes
  <2>2. CASE g # h
    <3>1. /\ addressTable'[g] = addressTable[g] /\ localVnodes'[g] = localVnodes[g]
          /\ heardOf'[g] = heardOf[g] /\ ring'[g] = ring[g]
      BY <1>2, <1>3, <2>2 DEF ChordTypes
    <3> QED BY <1>3, <3>1, Zenon DEF TablesOK
  <2> QED BY <2>1, <2>2
<1>6. CallsOK'
  BY <1>3, Zenon DEF CallsOK
<1> QED BY <1>4, <1>5, <1>6, Zenon DEF ChordInv, TablesOK

\* A virtual node is registered at its own host, which is in the table (Register).
LEMMA RegisterKeeps ==
  ASSUME ChordInv, NEW h \in Hosts, NEW vn \in Vnode, RegisterVnode(h, vn)
  PROVE  ChordInv'
<1>1. /\ ring[h] = "up" /\ vn.host = h
      /\ localVnodes' = [localVnodes EXCEPT ![h] = @ \cup {vn}]
      /\ heardOf' = [heardOf EXCEPT ![h] = @ \cup {vn}]
      /\ UNCHANGED <<ring, addressTable, call, panicked>>
  BY Zenon DEF RegisterVnode
<1>2. ChordTypes /\ TablesOK /\ CallsOK
  BY Zenon DEF ChordInv
<1>3. ChordTypes'
  BY <1>1, <1>2 DEF ChordTypes
<1>4. h \in addressTable[h]
  BY <1>1, <1>2 DEF TablesOK
<1>5. ASSUME NEW g \in Hosts
      PROVE  /\ localVnodes'[g] \subseteq heardOf'[g]
             /\ \A v \in heardOf'[g] : v.host \in addressTable'[g]
  <2>1. localVnodes[g] \subseteq heardOf[g] /\ \A v \in heardOf[g] : v.host \in addressTable[g]
    BY <1>2, Zenon DEF TablesOK
  <2>2. CASE g = h
    BY <1>1, <1>2, <1>4, <2>1, <2>2 DEF ChordTypes
  <2>3. CASE g # h
    BY <1>1, <1>2, <2>1, <2>3 DEF ChordTypes
  <2> QED BY <2>2, <2>3
<1>6. TablesOK'
  BY <1>1, <1>2, <1>5, Zenon DEF TablesOK
<1>7. CallsOK'
  BY <1>1, <1>2, Zenon DEF CallsOK
<1> QED BY <1>1, <1>3, <1>6, <1>7, Zenon DEF ChordInv

\* A handler learns at most the complete node of its call, and answers with complete
\* nodes (handleListVnodes to handleSkipSuccessor); so does a channel that breaks.
LEMMA HandlersKeep ==
  ASSUME ChordInv, NEW h \in Hosts, NEW c \in Hosts, NEW size,
         \/ handleListVnodes(h, c, size) \/ handlePing(h, c) \/ handleGetPredecessor(h, c, size)
         \/ handleNotify(h, c, size) \/ handleFindSuccessors(h, c, size)
         \/ handleClearPredecessor(h, c) \/ handleSkipSuccessor(h, c) \/ BreakCall(c)
  PROVE  ChordInv'
<1>1. UNCHANGED <<ring, localVnodes>> /\ call[c] # None
  BY Zenon DEF handleListVnodes, handlePing, handleGetPredecessor, handleNotify,
    handleFindSuccessors, handleClearPredecessor, handleSkipSuccessor, BreakCall,
    HandlerKeeps, Handles
<1>2. ChordTypes /\ TablesOK /\ call[c].self \in Complete /\ DOMAIN ring = Hosts
  BY <1>1, Zenon DEF ChordInv, ChordTypes, CallsOK, CallOK
<1>3. \/ UNCHANGED <<addressTable, heardOf, panicked>>
      \/ Learn(h, {call[c].self})
  BY Zenon DEF handleListVnodes, handlePing, handleGetPredecessor, handleNotify,
    handleFindSuccessors, handleClearPredecessor, handleSkipSuccessor, BreakCall
<1>4. TablesGrow /\ panicked' = {}
  <2>1. {call[c].self} \in SUBSET Complete
    BY <1>2, Zenon
  <2>2. CASE Learn(h, {call[c].self})
    BY <2>1, <2>2, LearnGrows, Zenon
  <2>3. CASE UNCHANGED <<addressTable, heardOf, panicked>>
    BY <2>3, SameTablesGrow, Zenon DEF ChordInv
  <2> QED BY <1>3, <2>2, <2>3, Zenon
<1>5. \/ CloseCall(c)
      \/ \E alive, n : \E res \in SUBSET Complete : AnswerCall(c, alive, res, n)
  <2>1. localVnodes[h] \in SUBSET heardOf[h] /\ {} \in SUBSET Complete
    BY <1>2, Zenon DEF TablesOK
  <2>2. \A vns \in SUBSET heardOf[h] : completeVnodes(h, vns) \in SUBSET Complete
    BY <1>2, AllHeardAreComplete, Zenon
  <2>3. \A vn \in heardOf[h] \cup {None} : {completeVnode(h, vn)} \in SUBSET Complete
    BY <1>2, HeardIsComplete, Zenon
  <2>4. CASE handleListVnodes(h, c, size)
    BY <2>1, <2>2, <2>4, Zenon DEF handleListVnodes
  <2>5. CASE handlePing(h, c)
    BY <2>1, <2>5, Zenon DEF handlePing
  <2>6. CASE handleGetPredecessor(h, c, size)
    BY <2>3, <2>6, Zenon DEF handleGetPredecessor
  <2>7. CASE handleNotify(h, c, size)
    BY <2>2, <2>7, Zenon DEF handleNotify
  <2>8. CASE handleFindSuccessors(h, c, size)
    BY <2>1, <2>2, <2>8, Zenon DEF handleFindSuccessors
  <2>9. CASE handleClearPredecessor(h, c) \/ handleSkipSuccessor(h, c) \/ BreakCall(c)
    BY <2>9, Zenon DEF handleClearPredecessor, handleSkipSuccessor, BreakCall
  <2> QED BY <2>4, <2>5, <2>6, <2>7, <2>8, <2>9, Zenon
<1>6. DOMAIN call' = Hosts /\ CallsOK'
  BY <1>1, <1>5, AnsweredCalls, Zenon
<1>7. DOMAIN ring' = Hosts /\ \A g \in Hosts : ring'[g] = "none" \/ ring[g] # "none"
  BY <1>1, <1>2, Zenon
<1> QED BY <1>1, <1>4, <1>6, <1>7, GrowingKeeps, Zenon

\* A caller learns the complete nodes of its answer; a ring that could not list is no more
\* joining (the ends of ListVnodes to SkipSuccessor).
LEMMA ReturnKeeps ==
  ASSUME ChordInv, NEW c \in Hosts, ReturnCall(c)
  PROVE  ChordInv'
<1>1. call[c] # None /\ UNCHANGED localVnodes /\ call' = [call EXCEPT ![c] = None]
  BY Zenon DEF ReturnCall
<1>2. call[c].res \in SUBSET Complete /\ DOMAIN ring = Hosts /\ DOMAIN call = Hosts
  BY <1>1, Zenon DEF ChordInv, ChordTypes, CallsOK, CallOK
<1>3. TablesGrow /\ panicked' = {}
  <2>1. CASE Learn(c, call[c].res)
    BY <1>2, <2>1, LearnGrows, Zenon
  <2>2. CASE UNCHANGED <<addressTable, heardOf, panicked>>
    BY <2>2, SameTablesGrow, Zenon DEF ChordInv
  <2> QED BY <2>1, <2>2, Zenon DEF ReturnCall
<1>4. DOMAIN ring' = Hosts /\ \A h \in Hosts : ring'[h] = "none" \/ ring[h] # "none"
  <2>1. PICK s : ring' = [ring EXCEPT ![c] = s] /\ (s = "none" \/ ring[c] # "none")
    <3>1. ring' = [ring EXCEPT ![c] = IF ring[c] # "joining" THEN ring[c]
                                      ELSE IF call[c].at = "answered" THEN "up" ELSE "none"]
      BY DEF ReturnCall
    <3>2. CASE ring[c] # "joining"
      BY <3>1, <3>2, Zenon
    <3>3. CASE ring[c] = "joining"
      <4>1. ring[c] # "none"
        BY <3>3
      <4> QED BY <3>1, <4>1, Zenon
    <3> QED BY <3>2, <3>3
  <2> QED BY <1>2, <2>1, Zenon
<1>5. DOMAIN call' = Hosts /\ CallsOK'
  BY <1>1, <1>2, Zenon DEF ChordInv, CallsOK
<1> QED BY <1>1, <1>3, <1>4, <1>5, GrowingKeeps, Zenon

\* A ring that stops keeps its transport (Stop).
LEMMA StopKeeps ==
  ASSUME ChordInv, NEW h \in Hosts, StopRing(h)
  PROVE  ChordInv'
<1>1. /\ ring' = [ring EXCEPT ![h] = "none"]
      /\ UNCHANGED <<addressTable, localVnodes, heardOf, call, panicked>>
  BY Zenon DEF StopRing
<1>2. DOMAIN ring' = Hosts /\ \A g \in Hosts : ring'[g] = "none" \/ ring[g] # "none"
  BY <1>1, Zenon DEF ChordInv, ChordTypes
<1>3. TablesGrow /\ DOMAIN call' = Hosts /\ CallsOK' /\ panicked' = {}
  BY <1>1, SameTablesGrow, Zenon DEF ChordInv, ChordTypes, CallsOK
<1> QED BY <1>1, <1>2, <1>3, GrowingKeeps, Zenon

\* When every endpoint has an address of its own, a ring can call whomever it has heard of,
\* for any hosts, virtual nodes and sizes of messages and any number of calls (chord.go,
\* completeVnode, internalVnode, lookupAddr).
THEOREM HeardCanBeCalled ==
  ASSUME Hosts \subseteq Addressed
  PROVE  ChordSpec => []KnownCanBeCalled
<1>1. ChordInit => ChordInv
  BY DEF ChordInit, ChordInv, ChordTypes, CallsOK, TablesOK
<1>2. ChordInv /\ ChordNext => ChordInv'
  <2>1. SUFFICES ASSUME ChordInv, ChordNext PROVE ChordInv'
    OBVIOUS
  <2>2. ASSUME NEW h \in Hosts, CreateRing(h) PROVE ChordInv'
    BY <2>1, <2>2, NewTransportKeeps, Zenon DEF CreateRing
  <2>3. ASSUME NEW h \in Hosts, NEW e \in Hosts, JoinRing(h, e) PROVE ChordInv'
    BY <2>1, <2>3, NewTransportKeeps, Zenon DEF JoinRing
  <2>4. ASSUME NEW h \in Hosts, StopRing(h) \/ RingCalls(h) \/ ReturnCall(h) PROVE ChordInv'
    BY <2>1, <2>4, StopKeeps, CallsAreSent, ReturnKeeps, Zenon
  <2>5. ASSUME NEW h \in Hosts, BreakCall(h) PROVE ChordInv'
    BY <2>1, <2>5, HandlersKeep, Zenon
  <2>6. ASSUME NEW h \in Hosts, NEW vn \in Vnode, RegisterVnode(h, vn) PROVE ChordInv'
    BY <2>1, <2>6, RegisterKeeps, Zenon
  <2>7. ASSUME NEW h \in Hosts, NEW c \in Hosts, NEW size \in Sizes,
               \/ handleListVnodes(h, c, size) \/ handlePing(h, c)
               \/ handleGetPredecessor(h, c, size) \/ handleNotify(h, c, size)
               \/ handleFindSuccessors(h, c, size)
               \/ handleClearPredecessor(h, c) \/ handleSkipSuccessor(h, c)
        PROVE  ChordInv'
    BY <2>1, <2>7, HandlersKeep, Zenon
  <2> QED BY <2>1, <2>2, <2>3, <2>4, <2>5, <2>6, <2>7, Zenon DEF ChordNext
<1>3. ChordInv /\ UNCHANGED chordVars => ChordInv'
  BY Zenon DEF ChordInv, ChordTypes, CallsOK, TablesOK, chordVars
<1>4. ChordInv => KnownCanBeCalled
  <2>1. ChordInv => \A h \in Hosts : call[h] # None => call[h].at # "ErrNoAddress"
    BY DEF ChordInv, CallsOK, CallOK
  <2> QED BY <2>1, Zenon DEF ChordInv, TablesOK, KnownCanBeCalled, lookupAddr
<1> QED BY <1>1, <1>2, <1>3, <1>4, PTL DEF ChordSpec

-----------------------------------------------------------------------------
(* The mappings of a gateway                                               *)

\* One socket for each protocol that the gateway maps.
OnePerProtocol == \A s, t \in Sockets : s.proto = t.proto => s = t

\* An internal address is one of a socket of the sub-transport.
OfSocket(a) == \E s \in Sockets : a = [proto |-> s.proto, ip |-> a.ip, port |-> s.port]

NatTypes ==
  /\ DOMAIN work = {"map", "stale", "todo", "wan", "lan", "since"}
  /\ events \in Nat /\ work.since \in Nat /\ work.since <= events
  /\ \A a \in DOMAIN mapping : OfSocket(a)
  /\ \A a \in DOMAIN work.map : OfSocket(a)
  /\ \A a \in work.todo : OfSocket(a)

\* While nothing has happened since the refresh began, the host has the address that was
\* looked up, and what the loop has been through and kept is forwarded to that address.
RenewedForward ==
  mapper = "renew" /\ work.since = events =>
    /\ work.lan = lan /\ lan # Nil
    /\ \A a \in DOMAIN work.map \ work.todo : a.ip = lan /\ Forwards(a, work.map[a])

NatInv == NatTypes /\ RenewedForward

\* Internal addresses of one IP and one protocol are the same.
LEMMA AddressesApart ==
  ASSUME OnePerProtocol, NEW a, NEW b, OfSocket(a), OfSocket(b),
         a.ip = b.ip, a.proto = b.proto
  PROVE  a = b
<1>1. PICK s \in Sockets : a = [proto |-> s.proto, ip |-> a.ip, port |-> s.port]
  BY Zenon DEF OfSocket
<1>2. PICK t \in Sockets : b = [proto |-> t.proto, ip |-> b.ip, port |-> t.port]
  BY Zenon DEF OfSocket
<1>3. s.proto = a.proto /\ t.proto = b.proto
  BY <1>1, <1>2
<1>4. s = t
  BY <1>3, Zenon DEF OnePerProtocol
<1> QED BY <1>1, <1>2, <1>4, Zenon

\* The sub-transport's addresses are of its sockets (asNATableAddr).
LEMMA AddrsOfSockets == \A a \in NATableAddrs : OfSocket(a)
<1>1. SUFFICES ASSUME NEW a \in NATableAddrs PROVE OfSocket(a)
  OBVIOUS
<1>2. PICK s \in Sockets, i \in {lan, Elsewhere} \ {Nil} :
        a = [proto |-> s.proto, ip |-> i, port |-> s.port]
  BY <1>1 DEF NATableAddrs
<1>3. a.ip = i
  BY <1>2
<1> QED BY <1>2, <1>3, Zenon DEF OfSocket

\* A gateway that maps ports to the host forwards them, and keeps what it forwards for
\* other protocols.
LEMMA MappedIsForwarded ==
  ASSUME NEW a, NEW ports, MapsPorts(a, ports)
  PROVE  /\ \A x \in ports : [proto |-> a.proto, ext |-> x, ip |-> lan, port |-> a.port] \in table'
         /\ \A e \in table : e.proto # a.proto => e \in table'
BY Zenon DEF MapsPorts, HoldsPort

\* While the host has an address on the gateway's network, a request maps the port that it
\* returns, and perhaps others whose answer was lost (AddPortMapping of either gateway).
LEMMA AddedIsMapped ==
  ASSUME GrantsAsked, lan # Nil, NEW a, NEW ext, AddPortMapping(a, ext)
  PROVE  \E ports : MapsPorts(a, ports) /\ (ext # Nil => ext \in ports)
<1>1. CASE AddUPnP(a, ext)
  <2>1. PICK lost \in SUBSET TriedPorts(a) : MapsPorts(a, lost \cup ({ext} \ {Nil}))
    BY <1>1, Zenon DEF AddUPnP, WANAddPortMapping
  <2>2. ext # Nil => ext \in lost \cup ({ext} \ {Nil})
    BY Zenon
  <2> QED BY <2>1, <2>2, Zenon
<1>2. CASE AddPMP(a, ext)
  <2>1. PICK lost : PMPAddPortMapping(a, lost, ext)
    BY <1>2, Zenon DEF AddPMP
  <2>2. MapsPorts(a, lost \cup (IF ext = Nil THEN {} ELSE {ext}))
    BY <2>1, Zenon DEF PMPAddPortMapping
  <2>3. ext # Nil => ext \in lost \cup (IF ext = Nil THEN {} ELSE {ext})
    BY Zenon
  <2> QED BY <2>2, <2>3, Zenon
<1> QED BY <1>1, <1>2, Zenon DEF AddPortMapping

\* One address of the loop of refreshMapping: it is mapped again and forwarded, or it is
\* gone from the copy; what was mapped before it is of another protocol, and stays.
LEMMA RenewKeepsInv ==
  ASSUME OnePerProtocol, GrantsAsked, NatInv, NEW a, RenewMapping(a)
  PROVE  NatInv'
<1>1. /\ mapper = "renew" /\ a \in work.todo
      /\ UNCHANGED <<lan, events, mapper>>
  BY Zenon DEF RenewMapping, networkVars
<1>2. NatTypes /\ OfSocket(a)
  BY <1>1, Zenon DEF NatInv, NatTypes
<1>3. \/ \E ext \in ExtPorts \cup {0} : Renewed(a, ext)
      \/ /\ Unrenewed(a)
         /\ work' = [work EXCEPT !.todo = RestOf(a), !.map = Without(@, a)]
  BY Zenon DEF RenewMapping
<1>4. DOMAIN mapping' = DOMAIN mapping
  BY <1>3 DEF Renewed, Unrenewed
<1>5. PICK m : /\ work' = [work EXCEPT !.todo = RestOf(a), !.map = m]
               /\ \/ m = Without(work.map, a) /\ Unrenewed(a)
                  \/ \E ext \in ExtPorts \cup {0} :
                       m = With(work.map, a, ExternalAddr(ext)) /\ Renewed(a, ext)
  <2>1. CASE \E ext \in ExtPorts \cup {0} : Renewed(a, ext)
    <3>1. PICK ext \in ExtPorts \cup {0} : Renewed(a, ext)
      BY <2>1, Zenon
    <3>2. work' = [work EXCEPT !.todo = RestOf(a), !.map = With(work.map, a, ExternalAddr(ext))]
      BY <1>2, <3>1 DEF Renewed, NatTypes
    <3> QED BY <3>1, <3>2, Zenon
  <2>2. CASE /\ Unrenewed(a)
             /\ work' = [work EXCEPT !.todo = RestOf(a), !.map = Without(@, a)]
    <3>1. work' = [work EXCEPT !.todo = RestOf(a), !.map = Without(work.map, a)]
      BY <1>2, <2>2 DEF NatTypes
    <3> QED BY <2>2, <3>1, Zenon
  <2> QED BY <1>3, <2>1, <2>2, Zenon
<1>6. /\ DOMAIN work' = DOMAIN work /\ work'.todo = work.todo \ {a} /\ work'.map = m
      /\ work'.lan = work.lan /\ work'.since = work.since
  BY <1>2, <1>5 DEF NatTypes, RestOf
<1>7. DOMAIN m \subseteq DOMAIN work.map \cup {a}
  BY <1>5, Zenon DEF With, Without
<1>8. NatTypes'
  BY <1>1, <1>2, <1>4, <1>6, <1>7, Zenon DEF NatTypes
<1>9. ASSUME work.since = events
      PROVE  /\ work.lan = lan /\ lan # Nil
             /\ \A b \in DOMAIN m \ (work.todo \ {a}) : b.ip = lan /\ Forwards(b, m[b])'
  <2>1. /\ work.lan = lan /\ lan # Nil
        /\ \A b \in DOMAIN work.map \ work.todo : b.ip = lan /\ Forwards(b, work.map[b])
    BY <1>1, <1>9, Zenon DEF NatInv, RenewedForward
  <2>2. ASSUME NEW b \in DOMAIN work.map \ work.todo
        PROVE  b.ip = lan /\ Forwards(b, m[b])'
    <3>1. b # a /\ b.ip = lan /\ Forwards(b, work.map[b]) /\ OfSocket(b)
      BY <1>1, <1>2, <2>1, <2>2, Zenon DEF NatTypes
    <3>2. m[b] = work.map[b]
      BY <1>5, <2>2, <3>1, Zenon DEF With, Without
    <3>3. CASE UNCHANGED table
      BY <3>1, <3>2, <3>3, Zenon DEF Forwards
    <3>4. CASE a.ip = work.lan /\ \E ext : AddPortMapping(a, ext)
      <4>1. PICK ports : MapsPorts(a, ports)
        BY <2>1, <3>4, AddedIsMapped, Zenon
      <4>2. b.proto # a.proto
        BY <1>2, <2>1, <3>1, <3>4, AddressesApart, Zenon
      <4> DEFINE e == [proto |-> b.proto, ext |-> work.map[b].ext, ip |-> b.ip, port |-> b.port]
      <4>3. e \in table /\ e.proto = b.proto
        BY <3>1 DEF Forwards
      <4>4. e \in table'
        BY <4>1, <4>2, <4>3, MappedIsForwarded, Zenon
      <4> QED BY <3>1, <3>2, <4>4, Zenon DEF Forwards
    <3> QED BY <1>5, <3>3, <3>4, Zenon DEF Renewed, Unrenewed
  <2>3. CASE m = Without(work.map, a)
    BY <2>1, <2>2, <2>3, Zenon DEF Without
  <2>4. CASE \E ext \in ExtPorts \cup {0} :
               m = With(work.map, a, ExternalAddr(ext)) /\ Renewed(a, ext)
    <3>1. PICK ext \in ExtPorts \cup {0} :
            m = With(work.map, a, ExternalAddr(ext)) /\ Renewed(a, ext)
      BY <2>4, Zenon
    <3>2. a.ip = lan /\ ext # Nil /\ AddPortMapping(a, ext)
      BY <2>1, <3>1, Zenon DEF Renewed
    <3>3. [proto |-> a.proto, ext |-> ext, ip |-> a.ip, port |-> a.port] \in table'
      BY <2>1, <3>2, AddedIsMapped, MappedIsForwarded, Zenon
    <3>4. m[a] = ExternalAddr(ext)
      BY <3>1, Zenon DEF With
    <3>5. m[a].ext = ext
      BY <3>4 DEF ExternalAddr
    <3>6. Forwards(a, m[a])'
      BY <3>3, <3>5, Zenon DEF Forwards
    <3>7. DOMAIN m = DOMAIN work.map \cup {a}
      BY <3>1, Zenon DEF With
    <3> QED BY <2>1, <2>2, <3>2, <3>6, <3>7, Zenon
  <2> QED BY <1>5, <2>1, <2>3, <2>4, Zenon
<1>10. RenewedForward'
  BY <1>1, <1>6, <1>9, Zenon DEF RenewedForward
<1> QED BY <1>8, <1>10, Zenon DEF NatInv

\* The two modes outside their loops (updateKnownAddresses, runDiscoverMode, Close, and the
\* ends of updateMappings and refreshMapping), and leases that expire between two ticks.
LEMMA ModesKeepInv ==
  ASSUME NatInv, UpdateKnown \/ DiscoverTick \/ PublishMapping \/ CloseMapper \/ LeasesExpire
  PROVE  NatInv'
<1>1. UNCHANGED <<events, work>>
  BY Zenon DEF UpdateKnown, DiscoverTick, PublishMapping, CloseMapper, LeasesExpire,
    networkVars, mapperVars
<1>2. \A a \in DOMAIN mapping' : a \in DOMAIN mapping \/ a \in DOMAIN work.map
  <2>1. \/ UNCHANGED mapping \/ mapping' = work.map \/ mapping' = NoMapping
    BY Zenon DEF UpdateKnown, DiscoverTick, PublishMapping, CloseMapper, LeasesExpire, mapperVars
  <2>2. DOMAIN NoMapping = {}
    BY Zenon DEF NoMapping
  <2> QED BY <2>1, <2>2, Zenon
<1>3. NatTypes'
  BY <1>1, <1>2, Zenon DEF NatInv, NatTypes
<1>4. mapper' # "renew"
  BY DEF UpdateKnown, DiscoverTick, DiscoverNAT, PublishMapping, CloseMapper, LeasesExpire,
    mapperVars
<1> QED BY <1>3, <1>4, Zenon DEF NatInv, RenewedForward

\* An update or a refresh begins with a copy of the mapping (updateMappings, refreshMapping).
LEMMA BeginKeepsInv ==
  ASSUME NatInv, UpdateTick \/ RefreshTick
  PROVE  NatInv'
<1>1. /\ UNCHANGED <<events, mapping>> /\ mapper' \in {"update", "refresh"}
      /\ work' = [map |-> mapping, stale |-> DOMAIN mapping, todo |-> {}, wan |-> Nil,
                  lan |-> Nil, since |-> events]
  BY Zenon DEF UpdateTick, RefreshTick, BeginCopy, networkVars
<1>2. /\ DOMAIN work' = {"map", "stale", "todo", "wan", "lan", "since"}
      /\ work'.map = mapping /\ work'.todo = {} /\ work'.since = events
  BY <1>1
<1>3. events <= events
  BY DEF NatInv, NatTypes
<1>4. NatTypes'
  BY <1>1, <1>2, <1>3, Zenon DEF NatInv, NatTypes
<1>5. mapper' # "renew"
  BY <1>1
<1> QED BY <1>4, <1>5, Zenon DEF NatInv, RenewedForward

\* A look-up gives the loop its addresses; that of a refresh has the host's address then.
LEMMA LookupKeepsInv ==
  ASSUME NatInv, NEW external, NEW internal \in {lan, Nil},
         LookupGateway(external, internal) \/ LookupFails(external, internal)
  PROVE  NatInv'
<1>1. CASE LookupGateway(external, internal)
  <2>1. /\ UNCHANGED <<lan, events, mapping>> /\ mapper \in {"update", "refresh"}
        /\ mapper' = IF mapper = "update" THEN "add" ELSE "renew"
        /\ internal = lan /\ lan # Nil
    BY <1>1, Zenon DEF LookupGateway, networkVars
  <2> DEFINE list == IF mapper = "update" THEN NATableAddrs ELSE DOMAIN work.map
  <2>2. work' = [work EXCEPT !.wan = external, !.lan = internal, !.todo = list]
    BY <1>1, Zenon DEF LookupGateway
  <2>3. NatTypes /\ \A a \in list : OfSocket(a)
    BY AddrsOfSockets, Zenon DEF NatInv, NatTypes
  <2>4. mapper' = "renew" => list = DOMAIN work.map
    BY <2>1
  <2> HIDE DEF list
  <2>5. /\ DOMAIN work' = DOMAIN work /\ work'.map = work.map /\ work'.since = work.since
        /\ work'.todo = list /\ work'.lan = internal
    BY <2>2, <2>3 DEF NatTypes
  <2>6. NatTypes'
    BY <2>1, <2>3, <2>5, Zenon DEF NatTypes
  <2>7. RenewedForward'
    BY <2>1, <2>4, <2>5, Zenon DEF RenewedForward
  <2> QED BY <2>6, <2>7, Zenon DEF NatInv
<1>2. CASE LookupFails(external, internal)
  <2>1. UNCHANGED <<events, work>> /\ mapping' = NoMapping /\ mapper' = "discover"
    BY <1>2, Zenon DEF LookupFails, networkVars
  <2>2. NatTypes'
    BY <2>1, Zenon DEF NatInv, NatTypes, NoMapping
  <2>3. mapper' # "renew"
    BY <2>1
  <2> QED BY <2>2, <2>3, Zenon DEF NatInv, RenewedForward
<1> QED BY <1>1, <1>2

\* The loops of updateMappings go over addresses of sockets.
LEMMA UpdateKeepsInv ==
  ASSUME NatInv, NEW a, AddExisting(a) \/ AddNew(a) \/ DeleteStale(a)
  PROVE  NatInv'
<1>1. UNCHANGED <<events, mapping, mapper>> /\ mapper = "add"
  BY Zenon DEF AddExisting, AddNew, DeleteStale, networkVars
<1>2. NatTypes
  BY Zenon DEF NatInv
<1>3. PICK m, todo, stale :
        /\ work' = [work EXCEPT !.map = m, !.todo = todo, !.stale = stale]
        /\ todo \subseteq work.todo
        /\ \A x \in DOMAIN m : x \in DOMAIN work.map \cup work.todo
  <2>1. CASE AddExisting(a)
    <3>1. PICK stale : work' = [work EXCEPT !.todo = RestOf(a), !.stale = stale]
      BY <2>1 DEF AddExisting
    <3>2. work' = [work EXCEPT !.map = work.map, !.todo = RestOf(a), !.stale = stale]
      BY <1>2, <3>1 DEF NatTypes
    <3>3. RestOf(a) \subseteq work.todo
      BY Zenon DEF RestOf
    <3>4. \A x \in DOMAIN work.map : x \in DOMAIN work.map \cup work.todo
      BY Zenon
    <3> QED BY <3>2, <3>3, <3>4, Zenon
  <2>2. CASE AddNew(a)
    <3>1. PICK ext :
            work' = [work EXCEPT !.todo = RestOf(a),
                                 !.map = IF ext = Nil THEN @ ELSE With(@, a, ExternalAddr(ext))]
      BY <2>2, Zenon DEF AddNew
    <3> DEFINE m == IF ext = Nil THEN work.map ELSE With(work.map, a, ExternalAddr(ext))
    <3>2. work' = [work EXCEPT !.map = m, !.todo = RestOf(a), !.stale = work.stale]
      BY <1>2, <3>1 DEF NatTypes
    <3>3. a \in work.todo
      BY <2>2, Zenon DEF AddNew
    <3>4. \A x \in DOMAIN m : x \in DOMAIN work.map \cup work.todo
      BY <3>3, Zenon DEF With
    <3>5. RestOf(a) \subseteq work.todo
      BY Zenon DEF RestOf
    <3> HIDE DEF m
    <3> QED BY <3>2, <3>4, <3>5, Zenon
  <2>3. CASE DeleteStale(a)
    <3>1. work' = [work EXCEPT !.map = Without(work.map, a), !.todo = work.todo,
                               !.stale = work.stale \ {a}]
      BY <1>2, <2>3 DEF DeleteStale, NatTypes
    <3>2. \A x \in DOMAIN Without(work.map, a) : x \in DOMAIN work.map \cup work.todo
      BY Zenon DEF Without
    <3> QED BY <3>1, <3>2, Zenon
  <2> QED BY <2>1, <2>2, <2>3
<1>4. /\ DOMAIN work' = DOMAIN work /\ work'.map = m /\ work'.since = work.since
      /\ work'.todo = todo
  BY <1>2, <1>3 DEF NatTypes
<1>5. NatTypes'
  BY <1>1, <1>2, <1>3, <1>4, Zenon DEF NatTypes
<1>6. mapper' # "renew"
  BY <1>1
<1> QED BY <1>5, <1>6, Zenon DEF NatInv, RenewedForward

\* A change of the host or of the gateway is after the beginning of what runs.
LEMMA EventsKeepInv ==
  ASSUME NatInv, HostMoves \/ GatewayMoves \/ GatewayRestarts
  PROVE  NatInv'
<1>1. events' = events + 1 /\ UNCHANGED <<mapping, work>>
  BY Zenon DEF HostMoves, GatewayMoves, GatewayRestarts, NetworkEvent, mapperVars
<1>2. NatTypes
  BY Zenon DEF NatInv
<1>3. events' \in Nat /\ work.since <= events' /\ work.since # events'
  BY <1>1, <1>2 DEF NatTypes
<1>4. NatTypes'
  BY <1>1, <1>2, <1>3, Zenon DEF NatTypes
<1> QED BY <1>1, <1>3, <1>4, Zenon DEF NatInv, RenewedForward

\* Where a gateway grants the port it is asked for, and the sub-transport has one socket for
\* each protocol, a refresh makes good what has become of the gateway's table, for any
\* sockets, addresses and ports and any number of changes (nat_transport.go, refreshMapping).
THEOREM RefreshesRestore ==
  ASSUME OnePerProtocol, GrantsAsked
  PROVE  NatSpec => RefreshRestores
<1>1. NatInit => NatInv
  <2>1. SUFFICES ASSUME NatInit PROVE NatInv
    OBVIOUS
  <2>2. /\ DOMAIN work = {"map", "stale", "todo", "wan", "lan", "since"} /\ work.since = 0
        /\ work.map = NoMapping /\ work.todo = {} /\ events = 0 /\ mapping = NoMapping
    BY <2>1 DEF NatInit
  <2>3. DOMAIN NoMapping = {}
    BY Zenon DEF NoMapping
  <2>4. NatTypes
    BY <2>2, <2>3 DEF NatTypes
  <2>5. mapper # "renew"
    BY <2>1 DEF NatInit
  <2> QED BY <2>4, <2>5, Zenon DEF NatInv, RenewedForward
<1>2. NatInv /\ [NatNext]_natVars => NatInv'
  <2>1. SUFFICES ASSUME NatInv, [NatNext]_natVars PROVE NatInv'
    OBVIOUS
  <2>2. CASE UpdateKnown \/ DiscoverTick \/ PublishMapping \/ CloseMapper \/ LeasesExpire
    BY <2>1, <2>2, ModesKeepInv, Zenon
  <2>3. CASE UpdateTick \/ RefreshTick
    BY <2>1, <2>3, BeginKeepsInv, Zenon
  <2>4. ASSUME NEW external \in GetExternalAddress, NEW internal \in GetInternalAddress,
               LookupGateway(external, internal) \/ LookupFails(external, internal)
        PROVE  NatInv'
    <3>1. internal \in {lan, Nil}
      BY <2>4, Zenon DEF GetInternalAddress, InternalUPnP, InternalPMP
    <3> QED BY <2>1, <2>4, <3>1, LookupKeepsInv, Zenon
  <2>5. ASSUME NEW a, AddExisting(a) \/ AddNew(a) \/ DeleteStale(a)
        PROVE  NatInv'
    BY <2>1, <2>5, UpdateKeepsInv, Zenon
  <2>6. ASSUME NEW a, RenewMapping(a) PROVE NatInv'
    BY <2>1, <2>6, RenewKeepsInv, Zenon
  <2>7. CASE HostMoves \/ GatewayMoves \/ GatewayRestarts
    BY <2>1, <2>7, EventsKeepInv, Zenon
  <2>8. CASE UNCHANGED natVars
    <3>1. UNCHANGED <<lan, table, events, mapper, mapping, work>>
      BY <2>8, Zenon DEF natVars
    <3> QED BY <2>1, <3>1, Zenon DEF NatInv, NatTypes, RenewedForward, Forwards
  <2> QED BY <2>1, <2>2, <2>3, <2>4, <2>5, <2>6, <2>7, <2>8, Zenon DEF NatNext, MapperStep
<1>3. NatInv /\ [NatNext]_natVars
      => [mapper = "renew" /\ mapper' = "mapping" /\ work.since = events
          => \A a \in DOMAIN mapping' : Forwards(a, mapping'[a])]_natVars
  <2>1. SUFFICES ASSUME NatInv, NatNext, mapper = "renew", mapper' = "mapping",
                        work.since = events
                 PROVE  \A a \in DOMAIN mapping' : Forwards(a, mapping'[a])
    BY Zenon
  <2>2. PublishMapping
    <3>1. mapper # mapper' /\ mapper \notin {"discover", "mapping", "add", "update", "refresh"}
      BY <2>1
    <3>2. ~(UpdateKnown \/ DiscoverTick \/ UpdateTick \/ RefreshTick \/ CloseMapper)
      BY <3>1, Zenon DEF UpdateKnown, DiscoverTick, UpdateTick, RefreshTick, BeginCopy, CloseMapper
    <3>3. \A a : ~(AddExisting(a) \/ AddNew(a) \/ DeleteStale(a) \/ RenewMapping(a))
      BY <3>1, Zenon DEF AddExisting, AddNew, DeleteStale, RenewMapping
    <3>4. ~(HostMoves \/ GatewayMoves \/ GatewayRestarts \/ LeasesExpire)
      BY <3>1, Zenon DEF HostMoves, GatewayMoves, GatewayRestarts, LeasesExpire, mapperVars
    <3> QED BY <2>1, <3>1, <3>2, <3>3, <3>4, Zenon DEF NatNext, MapperStep
  <2>3. mapping' = work.map /\ work.todo = {}
    BY <2>1, <2>2 DEF PublishMapping
  <2>4. \A a \in DOMAIN work.map \ work.todo : Forwards(a, work.map[a])
    BY <2>1, Zenon DEF NatInv, RenewedForward
  <2> QED BY <2>3, <2>4, Zenon
<1> QED BY <1>1, <1>2, <1>3, PTL DEF NatSpec, RefreshRestores
==============================================================================
