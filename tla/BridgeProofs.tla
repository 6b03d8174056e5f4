---------------------------- MODULE BridgeProofs ----------------------------
(***************************************************************************)
(* The bridge, for any number of connections, endings, callers and         *)
(* introductions: no packet is lost while nothing has ended, a bridged     *)
(* pipe hears, and whoever waits for an introduction is woken.             *)
(***************************************************************************)
EXTENDS Bridge, TLAPS

-----------------------------------------------------------------------------
(* Connections and packets                                                 *)

FromEnd(e, kind) == [to |-> "router", from |-> e, kind |-> kind]
ToEnd(e, kind) == [to |-> e, kind |-> kind]

BridgeTypes ==
  /\ linkAt \in [Ends -> BOOLEAN] /\ linkOf \in [Ends -> BOOLEAN]
  /\ DOMAIN connecting = Ends /\ ended \in [Ends -> BOOLEAN]
  /\ lineUp \in [Ends -> BOOLEAN] /\ hasPipe \in [Ends -> BOOLEAN]
  /\ pipeConn \in [Ends -> Nat] /\ connCount \in [Ends -> Nat]
  /\ registered \in [Ends -> Nat] /\ unregistering \in [Ends -> Nat]
  /\ DOMAIN shutConns = Ends /\ DOMAIN late = Ends /\ endings \in Nat

\* Connections are numbered as they are made.  One that is to be registered is the first,
\* and open unless its exchange has ended; while the link is down only late ones are.
ConnOK(e) ==
  /\ pipeConn[e] <= connCount[e] /\ registered[e] <= connCount[e]
  /\ \A c \in shutConns[e] : c \in Nat /\ 0 < c /\ c <= connCount[e]
  /\ ~hasPipe[e] => connCount[e] = 0 /\ connecting[e] = "no"
  /\ connecting[e] # "no" => /\ registered[e] = 0 /\ connCount[e] = 1
                             /\ ended[e] \/ (pipeConn[e] = 1 /\ shutConns[e] = {})
  /\ ~linkOf[e] => registered[e] = 0 \/ registered[e] \in late[e]

\* BridgedPipeHears, of one endpoint.
HearsOK(e) ==
  /\ Usable(e) => registered[e] = pipeConn[e] \/ connecting[e] # "no" \/ pipeConn[e] \in late[e]
  /\ registered[e] \in shutConns[e] \ late[e] => unregistering[e] > 0

\* While nothing has ended nothing is closed, and a pipe keeps its first connection.
CalmEnd(e) ==
  /\ linkAt[e] /\ linkOf[e] /\ ~ended[e]
  /\ shutConns[e] = {} /\ unregistering[e] = 0 /\ late[e] = {}
  /\ pipeConn[e] = 0 => connCount[e] = 0

\* Nothing is sent before A has dialed, and B has a pipe only once something was sent.
CalmPipe(e) ==
  /\ hasPipe[e] /\ msgs # {} => pipeConn[e] # 0
  /\ hasPipe[e] => e = A \/ msgs # {}

\* An endpoint that has the line of the other, or a handshake that lets it have it, has a
\* route at the router for what it writes, and a connection for what it gets.
CalmRoute(e) ==
  /\ lineUp[e] => pipeConn[e] # 0
  /\ lineUp[e] \/ connecting[e] # "no" => OtherEnd(e) \in routes
  /\ \A kind \in HandshakeKinds : ToEnd(e, kind) \in msgs => OtherEnd(e) \in routes
  /\ FromEnd(e, "packet") \in msgs => lineUp[e]

\* The inductive invariant.
BridgeInv ==
  /\ BridgeTypes /\ ~lost
  /\ \A e \in Ends : ConnOK(e) /\ HearsOK(e)
  /\ endings = 0 => \A e \in Ends : CalmEnd(e) /\ CalmPipe(e) /\ CalmRoute(e)

-----------------------------------------------------------------------------
\* How many connections a closing closes: none if that is done, or one.
LEMMA FreshCount ==
  ASSUME NEW x, NEW S
  PROVE  CloseCalls({x} \ S) = IF x \in S THEN 0 ELSE 1
<1>1. {x} \ S = {} <=> x \in S
  BY Zenon
<1> QED BY <1>1, Zenon DEF CloseCalls

\* The actions of a bridge of which nothing has ended.
CalmAction(e) ==
  \/ \E kind \in HandshakeKinds :
       HandlePeer(e, kind) \/ HandleConnect(e, kind) \/ HandleFirstConnect(e, kind)
  \/ ForwardMessage(e) \/ ReceivedForwarded(e)
  \/ Dial(e) \/ WriteHandshake(e) \/ WriteBridgedPacket(e) \/ ConnectRegisters(e)

\* The actions that end something, or follow an ending.
EndingAction(e) ==
  \/ LinkAtRouterCloses(e) \/ LinkAtRouterReturns(e)
  \/ LinkOfEndCloses(e) \/ LinkOfEndReturns(e)
  \/ BridgedExpires(e) \/ UnregisterConnection(e) \/ ReaderEnds(e)

\* Every step is an action of an endpoint, or of the router for it.
LEMMA BridgeActions ==
  ASSUME BridgeNext
  PROVE  \E e \in Ends : CalmAction(e) \/ EndingAction(e)
BY Zenon DEF BridgeNext, CalmAction, EndingAction

\* Each variable has its type (registerConnection, unregisterConnection).
LEMMA BridgeTypesStep ==
  ASSUME BridgeTypes, BridgeNext
  PROVE  BridgeTypes'
<1>0. PICK e \in Ends : CalmAction(e) \/ EndingAction(e)
  BY BridgeActions, Zenon
<1> USE DEF BridgeTypes, routerVars, connVars, bridgedVars, End
<1>1. ASSUME NEW kind \in HandshakeKinds, HandlePeer(e, kind) PROVE BridgeTypes'
  BY <1>1, Zenon DEF HandlePeer
<1>2. ASSUME NEW kind \in HandshakeKinds, HandleConnect(e, kind) PROVE BridgeTypes'
  BY <1>2 DEF HandleConnect, Apply
<1>3. ASSUME NEW kind \in HandshakeKinds, HandleFirstConnect(e, kind) PROVE BridgeTypes'
  BY <1>3 DEF HandleFirstConnect
<1>4. CASE ForwardMessage(e)
  BY <1>4, Zenon DEF ForwardMessage
<1>5. CASE ReceivedForwarded(e)
  BY <1>5, Zenon DEF ReceivedForwarded
<1>6. CASE LinkAtRouterCloses(e)
  BY <1>6 DEF LinkAtRouterCloses
<1>7. CASE LinkAtRouterReturns(e)
  BY <1>7 DEF LinkAtRouterReturns
<1>8. CASE LinkOfEndCloses(e)
  BY <1>8, FreshCount DEF LinkOfEndCloses
<1>9. CASE LinkOfEndReturns(e)
  BY <1>9 DEF LinkOfEndReturns
<1>10. CASE Dial(e)
  BY <1>10, FreshCount DEF Dial, RegisterConnection
<1>11. CASE WriteHandshake(e)
  BY <1>11, Zenon DEF WriteHandshake
<1>12. CASE WriteBridgedPacket(e)
  BY <1>12, Zenon DEF WriteBridgedPacket
<1>13. CASE BridgedExpires(e)
  BY <1>13, FreshCount DEF BridgedExpires
<1>14. CASE UnregisterConnection(e)
  BY <1>14, FreshCount DEF UnregisterConnection
<1>15. CASE ReaderEnds(e)
  BY <1>15 DEF ReaderEnds
<1>16. CASE ConnectRegisters(e)
  BY <1>16, FreshCount DEF ConnectRegisters, RegisterConnection, Apply
<1> QED BY <1>0, <1>1, <1>2, <1>3, <1>4, <1>5, <1>6, <1>7, <1>8, <1>9, <1>10, <1>11, <1>12,
           <1>13, <1>14, <1>15, <1>16, Zenon DEF CalmAction, EndingAction

\* What ConnOK and HearsOK of an endpoint are about.
EndState(e) ==
  <<linkOf[e], connecting[e], ended[e], hasPipe[e], pipeConn[e], connCount[e], registered[e],
    shutConns[e], unregistering[e], late[e]>>

\* An endpoint whose state stays is as well off as before.
LEMMA EndStays ==
  ASSUME NEW e, ConnOK(e), HearsOK(e), EndState(e)' = EndState(e)
  PROVE  ConnOK(e)' /\ HearsOK(e)'
<1>1. /\ linkOf'[e] = linkOf[e] /\ connecting'[e] = connecting[e] /\ ended'[e] = ended[e]
      /\ hasPipe'[e] = hasPipe[e] /\ pipeConn'[e] = pipeConn[e] /\ connCount'[e] = connCount[e]
      /\ registered'[e] = registered[e] /\ shutConns'[e] = shutConns[e]
      /\ unregistering'[e] = unregistering[e] /\ late'[e] = late[e]
  BY SMT DEF EndState
<1>2. ConnOK(e)'
  BY <1>1, Zenon DEF ConnOK
<1>3. HearsOK(e)'
  BY <1>1, Zenon DEF HearsOK, Usable
<1> QED BY <1>2, <1>3

\* An action of one endpoint leaves the other alone.
LEMMA OthersStay ==
  ASSUME BridgeTypes, NEW e \in Ends, NEW f \in Ends, f # e,
         \/ \E kind \in HandshakeKinds : HandleFirstConnect(e, kind)
         \/ LinkOfEndCloses(e) \/ LinkOfEndReturns(e) \/ Dial(e) \/ BridgedExpires(e)
         \/ UnregisterConnection(e) \/ ReaderEnds(e) \/ ConnectRegisters(e)
  PROVE  EndState(f)' = EndState(f)
<1> USE DEF BridgeTypes, EndState, routerVars, connVars, bridgedVars
<1>1. ASSUME NEW kind \in HandshakeKinds, HandleFirstConnect(e, kind) PROVE EndState(f)' = EndState(f)
  BY <1>1 DEF HandleFirstConnect
<1>2. CASE LinkOfEndCloses(e)
  BY <1>2 DEF LinkOfEndCloses
<1>3. CASE LinkOfEndReturns(e)
  BY <1>3 DEF LinkOfEndReturns
<1>4. CASE Dial(e)
  BY <1>4 DEF Dial, RegisterConnection
<1>5. CASE BridgedExpires(e)
  BY <1>5 DEF BridgedExpires
<1>6. CASE UnregisterConnection(e)
  BY <1>6 DEF UnregisterConnection
<1>7. CASE ReaderEnds(e)
  BY <1>7 DEF ReaderEnds
<1>8. CASE ConnectRegisters(e)
  BY <1>8 DEF ConnectRegisters, RegisterConnection
<1> QED BY <1>1, <1>2, <1>3, <1>4, <1>5, <1>6, <1>7, <1>8, Zenon

\* A connection that is made is registered, and nothing that was closed has its number
\* (Dial, registerConnection).
LEMMA DialKeeps ==
  ASSUME BridgeTypes, NEW e \in Ends, ConnOK(e), HearsOK(e), Dial(e)
  PROVE  ConnOK(e)' /\ HearsOK(e)'
<1> DEFINE c == connCount[e] + 1
           prev == {registered[e]} \ ({0} \cup shutConns[e])
<1>1. /\ hasPipe[e] /\ ~ended[e] /\ pipeConn[e] = 0 /\ linkOf[e]
      /\ linkOf'[e] = linkOf[e] /\ connecting'[e] = connecting[e] /\ ended'[e] = ended[e]
      /\ hasPipe'[e] = hasPipe[e] /\ pipeConn'[e] = c /\ connCount'[e] = c
      /\ registered'[e] = c /\ shutConns'[e] = shutConns[e] \cup prev
  BY DEF Dial, RegisterConnection, BridgeTypes
<1>2. connCount[e] \in Nat /\ registered[e] \in Nat
  BY DEF BridgeTypes
<1>3. connecting[e] = "no"
  BY <1>1, SMT DEF ConnOK
<1>4. c \notin shutConns[e] \cup prev
  BY <1>2, SMT DEF ConnOK
<1>5. \A k \in shutConns[e] \cup prev : k \in Nat /\ 0 < k /\ k <= c
  BY <1>2, SMT DEF ConnOK
<1> HIDE DEF prev
<1>6. ConnOK(e)'
  BY <1>1, <1>2, <1>3, <1>5, SMT DEF ConnOK
<1>7. HearsOK(e)'
  BY <1>1, <1>4, SMT DEF HearsOK
<1> QED BY <1>6, <1>7

\* The first connection is about to be registered (handle_connect, AddPipeConnection).
LEMMA FirstKeeps ==
  ASSUME BridgeTypes, NEW e \in Ends, ConnOK(e), HearsOK(e),
         NEW kind \in HandshakeKinds, HandleFirstConnect(e, kind)
  PROVE  ConnOK(e)' /\ HearsOK(e)'
<1>1. /\ ~hasPipe[e] /\ linkOf[e] /\ linkOf'[e] = linkOf[e] /\ connecting'[e] = kind
      /\ hasPipe'[e] /\ pipeConn'[e] = connCount[e] + 1 /\ connCount'[e] = connCount[e] + 1
      /\ registered'[e] = registered[e] /\ shutConns'[e] = shutConns[e]
      /\ unregistering' = unregistering /\ late' = late
  BY DEF HandleFirstConnect, BridgeTypes
<1>2. kind # "no"
  BY DEF HandshakeKinds
<1>3. connCount[e] = 0 /\ registered[e] = 0
  BY <1>1 DEF ConnOK, BridgeTypes
<1>4. shutConns[e] = {}
  BY <1>3, SMT DEF ConnOK
<1>5. ConnOK(e)'
  BY <1>1, <1>2, <1>3, <1>4, SMT DEF ConnOK
<1>6. HearsOK(e)'
  BY <1>1, <1>2, <1>3, <1>4, SMT DEF HearsOK
<1> QED BY <1>5, <1>6

\* What is registered when the exchange has ended is late (handle_connect).
LEMMA ConnectKeeps ==
  ASSUME BridgeTypes, NEW e \in Ends, ConnOK(e), HearsOK(e), ConnectRegisters(e)
  PROVE  ConnOK(e)' /\ HearsOK(e)'
<1>0. registered[e] = 0 /\ connCount[e] = 1 /\ pipeConn[e] <= 1 /\ hasPipe[e]
  BY DEF ConnOK, ConnectRegisters
<1>1. /\ linkOf'[e] = linkOf[e] /\ connecting'[e] = "no" /\ ended'[e] = ended[e]
      /\ hasPipe'[e] = hasPipe[e] /\ pipeConn'[e] = pipeConn[e] /\ connCount'[e] = connCount[e]
      /\ registered'[e] = 1 /\ shutConns'[e] = shutConns[e]
      /\ (linkOf[e] /\ 1 \notin shutConns[e]) \/ 1 \in late'[e]
  BY <1>0 DEF ConnectRegisters, RegisterConnection, BridgeTypes
<1>2. pipeConn[e] \in Nat
  BY DEF BridgeTypes
<1>3. ConnOK(e)'
  BY <1>0, <1>1, <1>2, SMT DEF ConnOK
<1>4. HearsOK(e)'
  BY <1>0, <1>1, <1>2, SMT DEF HearsOK, Usable
<1> QED BY <1>3, <1>4

\* An exchange that ends closes the connection of its pipe, whose unregisterConnection is to
\* come (Close, onClose).
LEMMA ExpiresKeeps ==
  ASSUME BridgeTypes, NEW e \in Ends, ConnOK(e), HearsOK(e), BridgedExpires(e)
  PROVE  ConnOK(e)' /\ HearsOK(e)'
<1> DEFINE now == {pipeConn[e]} \ ({0} \cup shutConns[e])
<1>1. /\ linkOf'[e] = linkOf[e] /\ connecting'[e] = connecting[e] /\ ended'[e]
      /\ hasPipe'[e] = hasPipe[e] /\ pipeConn'[e] = pipeConn[e] /\ connCount'[e] = connCount[e]
      /\ registered'[e] = registered[e] /\ shutConns'[e] = shutConns[e] \cup now
      /\ unregistering'[e] = unregistering[e] + CloseCalls(now) /\ late' = late
  BY DEF BridgedExpires, BridgeTypes
<1>2. pipeConn[e] \in Nat /\ connCount[e] \in Nat /\ unregistering[e] \in Nat
  BY DEF BridgeTypes
<1>3. CloseCalls(now) \in Nat
  BY FreshCount
<1>4. now # {} => CloseCalls(now) = 1
  BY FreshCount
<1>5. \A k \in shutConns[e] \cup now : k \in Nat /\ 0 < k /\ k <= connCount[e]
  BY <1>2, SMT DEF ConnOK
<1>6. pipeConn[e] = 0 \/ pipeConn[e] \in shutConns[e] \cup now
  BY Zenon
<1> HIDE DEF now
<1>7. ConnOK(e)'
  BY <1>1, <1>2, <1>5, SMT DEF ConnOK
<1>8. HearsOK(e)'
  BY <1>1, <1>2, <1>3, <1>4, <1>6, SMT DEF HearsOK, Usable
<1> QED BY <1>7, <1>8

\* What was registered is removed and closed (unregisterConnection, on_exchange_closed).
LEMMA RemovedKeeps ==
  ASSUME BridgeTypes, NEW e \in Ends, ConnOK(e), HearsOK(e),
         UnregisterConnection(e) \/ LinkOfEndCloses(e)
  PROVE  ConnOK(e)' /\ HearsOK(e)'
<1> DEFINE now == {registered[e]} \ ({0} \cup shutConns[e])
<1>1. /\ connecting'[e] = connecting[e] /\ ended'[e] = ended[e]
      /\ hasPipe'[e] = hasPipe[e] /\ pipeConn'[e] = pipeConn[e] /\ connCount'[e] = connCount[e]
      /\ registered'[e] = 0 /\ shutConns'[e] = shutConns[e] \cup now /\ late' = late
  <2>1. CASE UnregisterConnection(e)
    BY <2>1 DEF UnregisterConnection, bridgedVars, BridgeTypes
  <2>2. CASE LinkOfEndCloses(e)
    BY <2>2 DEF LinkOfEndCloses, BridgeTypes
  <2> QED BY <2>1, <2>2, Zenon
<1>2. pipeConn[e] \in Nat /\ connCount[e] \in Nat /\ registered[e] \in Nat
  BY DEF BridgeTypes
<1>3. \A k \in shutConns[e] \cup now : k \in Nat /\ 0 < k /\ k <= connCount[e]
  BY <1>2, SMT DEF ConnOK
<1>4. registered[e] = 0 => now = {}
  BY Zenon
<1>5. registered[e] = 0 \/ registered[e] \in shutConns[e] \cup now
  BY Zenon
<1> HIDE DEF now
<1>6. ConnOK(e)'
  BY <1>1, <1>2, <1>3, <1>4, SMT DEF ConnOK
<1>7. HearsOK(e)'
  BY <1>1, <1>3, <1>5, SMT DEF HearsOK, Usable
<1> QED BY <1>6, <1>7

\* A link that returns finds no registration, except a late one (on_exchange_closed).
LEMMA ReturnsKeeps ==
  ASSUME BridgeTypes, NEW e \in Ends, ConnOK(e), HearsOK(e), LinkOfEndReturns(e)
  PROVE  ConnOK(e)' /\ HearsOK(e)'
<1>1. /\ ~linkOf[e] /\ linkOf'[e] /\ connecting[e] = "no" /\ connecting' = connecting
      /\ ended' = ended /\ hasPipe' = hasPipe /\ pipeConn' = pipeConn /\ connCount' = connCount
      /\ registered'[e] = 0 /\ shutConns' = shutConns /\ late' = late
  BY DEF LinkOfEndReturns, BridgeTypes
<1>2. connCount[e] \in Nat
  BY DEF BridgeTypes
<1>3. ConnOK(e)'
  BY <1>1, <1>2, SMT DEF ConnOK
<1>4. 0 \notin shutConns[e]
  BY SMT DEF ConnOK
<1>5. HearsOK(e)'
  BY <1>1, <1>4, SMT DEF ConnOK, HearsOK, Usable
<1> QED BY <1>3, <1>5

\* The pipe dials again once its reader has ended (readers, peerAddr.Dial).
LEMMA ReaderKeeps ==
  ASSUME BridgeTypes, NEW e \in Ends, ConnOK(e), HearsOK(e), ReaderEnds(e)
  PROVE  ConnOK(e)' /\ HearsOK(e)'
<1>1. /\ pipeConn[e] \in shutConns[e] /\ pipeConn'[e] = 0 /\ linkOf' = linkOf
      /\ connecting' = connecting /\ ended' = ended /\ hasPipe' = hasPipe
      /\ connCount' = connCount /\ registered' = registered /\ shutConns' = shutConns
      /\ unregistering' = unregistering /\ late' = late
  BY DEF ReaderEnds, BridgeTypes, connVars
<1>2. connCount[e] \in Nat
  BY DEF BridgeTypes
<1>3. ConnOK(e)'
  BY <1>1, <1>2, SMT DEF ConnOK
<1>4. HearsOK(e)'
  BY <1>1, SMT DEF HearsOK, Usable
<1> QED BY <1>3, <1>4

\* The connections of the endpoints are in order after every step.
LEMMA EndsStep ==
  ASSUME BridgeTypes, \A f \in Ends : ConnOK(f) /\ HearsOK(f), BridgeNext, NEW f \in Ends
  PROVE  ConnOK(f)' /\ HearsOK(f)'
<1>0. PICK e \in Ends : CalmAction(e) \/ EndingAction(e)
  BY BridgeActions, Zenon
<1>1. CASE \/ \E kind \in HandshakeKinds : HandlePeer(e, kind) \/ HandleConnect(e, kind)
           \/ ForwardMessage(e) \/ ReceivedForwarded(e)
           \/ LinkAtRouterCloses(e) \/ LinkAtRouterReturns(e)
           \/ WriteHandshake(e) \/ WriteBridgedPacket(e)
  <2>1. /\ linkOf' = linkOf /\ connecting' = connecting /\ ended' = ended /\ hasPipe' = hasPipe
        /\ pipeConn' = pipeConn /\ UNCHANGED connVars
    BY <1>1, Zenon DEF HandlePeer, HandleConnect, ForwardMessage, ReceivedForwarded,
       LinkAtRouterCloses, LinkAtRouterReturns, WriteHandshake, WriteBridgedPacket,
       bridgedVars
  <2>2. EndState(f)' = EndState(f)
    BY <2>1, Zenon DEF EndState, connVars
  <2> QED BY <2>2, EndStays, Zenon
<1>2. CASE \/ \E kind \in HandshakeKinds : HandleFirstConnect(e, kind)
           \/ LinkOfEndCloses(e) \/ LinkOfEndReturns(e) \/ Dial(e) \/ BridgedExpires(e)
           \/ UnregisterConnection(e) \/ ReaderEnds(e) \/ ConnectRegisters(e)
  <2>1. CASE f # e
    BY <1>2, <2>1, OthersStay, EndStays, Zenon
  <2>2. ConnOK(e)' /\ HearsOK(e)'
    BY <1>2, DialKeeps, FirstKeeps, ConnectKeeps, ExpiresKeeps, RemovedKeeps, ReturnsKeeps,
       ReaderKeeps, Zenon
  <2> QED BY <2>1, <2>2, Zenon
<1> QED BY <1>0, <1>1, <1>2, Zenon DEF CalmAction, EndingAction

\* Messages of the two kinds differ, and a message tells who it is of and what it is.
LEMMA MessagesDiffer ==
  ASSUME NEW e, NEW f, NEW j, NEW k
  PROVE  /\ FromEnd(e, j) # ToEnd(f, k)
         /\ FromEnd(e, j) = FromEnd(f, k) => e = f /\ j = k
         /\ ToEnd(e, j) = ToEnd(f, k) => e = f /\ j = k
<1>1. DOMAIN FromEnd(e, j) # DOMAIN ToEnd(f, k)
  <2>1. "from" \in DOMAIN FromEnd(e, j) /\ "from" \notin DOMAIN ToEnd(f, k)
    BY DEF FromEnd, ToEnd
  <2> QED BY <2>1, Zenon
<1>2. FromEnd(e, j) # ToEnd(f, k)
  BY <1>1, Zenon
<1>3. /\ FromEnd(e, j).from = e /\ FromEnd(e, j).kind = j
      /\ FromEnd(f, k).from = f /\ FromEnd(f, k).kind = k
      /\ ToEnd(e, j).to = e /\ ToEnd(e, j).kind = j
      /\ ToEnd(f, k).to = f /\ ToEnd(f, k).kind = k
  BY DEF FromEnd, ToEnd
<1> QED BY <1>2, <1>3, Zenon

\* While nothing has ended no action that needs an ending happens.
LEMMA CalmActions ==
  ASSUME BridgeTypes, NEW e \in Ends, CalmEnd(e), endings = 0, endings' = 0,
         EndingAction(e)
  PROVE  FALSE
<1>1. CASE LinkAtRouterCloses(e) \/ LinkOfEndCloses(e) \/ BridgedExpires(e)
  <2>1. endings' = endings + 1
    BY <1>1, Zenon DEF LinkAtRouterCloses, LinkOfEndCloses, BridgedExpires, End
  <2> QED BY <2>1
<1>2. CASE LinkAtRouterReturns(e) \/ LinkOfEndReturns(e)
  BY <1>2, Zenon DEF LinkAtRouterReturns, LinkOfEndReturns, CalmEnd
<1>3. CASE UnregisterConnection(e)
  BY <1>3 DEF UnregisterConnection, CalmEnd
<1>4. CASE ReaderEnds(e)
  BY <1>4, Zenon DEF ReaderEnds, CalmEnd
<1> QED BY <1>1, <1>2, <1>3, <1>4, Zenon DEF EndingAction

\* An ending is never forgotten.
LEMMA EndingsStay ==
  ASSUME BridgeTypes, BridgeNext, endings' = 0
  PROVE  endings = 0
<1>0. PICK e \in Ends : CalmAction(e) \/ EndingAction(e)
  BY BridgeActions, Zenon
<1>1. endings' = endings \/ endings' = endings + 1
  <2>1. CASE LinkAtRouterCloses(e) \/ LinkOfEndCloses(e) \/ BridgedExpires(e)
    BY <2>1, Zenon DEF LinkAtRouterCloses, LinkOfEndCloses, BridgedExpires, End
  <2>2. CASE \/ LinkAtRouterReturns(e) \/ LinkOfEndReturns(e) \/ UnregisterConnection(e)
             \/ ReaderEnds(e)
    BY <2>2, Zenon DEF LinkAtRouterReturns, LinkOfEndReturns, UnregisterConnection, ReaderEnds
  <2>3. CASE CalmAction(e)
    BY <2>3, Zenon DEF CalmAction, HandlePeer, HandleConnect, HandleFirstConnect, ForwardMessage,
       ReceivedForwarded, Dial, WriteHandshake, WriteBridgedPacket, ConnectRegisters
  <2> QED BY <1>0, <2>1, <2>2, <2>3, Zenon DEF EndingAction
<1>2. endings \in Nat
  BY DEF BridgeTypes
<1> QED BY <1>1, <1>2

\* While nothing has ended nothing is closed, and a pipe keeps its first connection.
LEMMA CalmEndKeeps ==
  ASSUME BridgeTypes, NEW e \in Ends, ConnOK(e), NEW f \in Ends, CalmEnd(f), ConnOK(f),
         CalmAction(e)
  PROVE  CalmEnd(f)'
<1>1. CASE \/ \E kind \in HandshakeKinds : HandlePeer(e, kind) \/ HandleConnect(e, kind)
           \/ ForwardMessage(e) \/ ReceivedForwarded(e)
           \/ WriteHandshake(e) \/ WriteBridgedPacket(e)
  <2>1. UNCHANGED <<linkAt, linkOf, ended, shutConns, unregistering, late, pipeConn, connCount>>
    BY <1>1, Zenon DEF HandlePeer, HandleConnect, ForwardMessage, ReceivedForwarded,
       WriteHandshake, WriteBridgedPacket, bridgedVars, connVars, routerVars
  <2> QED BY <2>1, Zenon DEF CalmEnd
<1>2. ASSUME NEW kind \in HandshakeKinds, HandleFirstConnect(e, kind) PROVE CalmEnd(f)'
  <2>1. /\ UNCHANGED <<linkAt, linkOf, ended, shutConns, unregistering, late>>
        /\ (pipeConn'[f] = pipeConn[f] /\ connCount'[f] = connCount[f]) \/ pipeConn'[f] # 0
    BY <1>2 DEF HandleFirstConnect, BridgeTypes, routerVars
  <2> QED BY <2>1, Zenon DEF CalmEnd
<1>3. CASE Dial(e)
  <2>1. /\ UNCHANGED <<linkAt, linkOf, ended>>
        /\ (pipeConn'[f] = pipeConn[f] /\ connCount'[f] = connCount[f]) \/ pipeConn'[f] # 0
    BY <1>3 DEF Dial, BridgeTypes, routerVars
  <2>2. f # e => shutConns'[f] = shutConns[f] /\ unregistering'[f] = unregistering[f] /\ late'[f] = late[f]
    BY <1>3 DEF Dial, RegisterConnection, BridgeTypes
  <2>3. ASSUME f = e
        PROVE  shutConns'[f] = shutConns[f] /\ unregistering'[f] = unregistering[f] /\ late'[f] = late[f]
    <3>1. registered[f] = 0
      BY <1>3, <2>3 DEF Dial, CalmEnd, ConnOK, BridgeTypes
    <3>2. {registered[f]} \ ({0} \cup shutConns[f]) = {}
      BY <3>1, Zenon
    <3>3. late' = late
      BY <1>3, <2>3, Zenon DEF Dial, RegisterConnection, CalmEnd
    <3>4. shutConns'[f] = shutConns[f] \cup {}
      BY <1>3, <2>3, <3>2, Zenon DEF Dial, RegisterConnection, BridgeTypes
    <3>5. unregistering'[f] = unregistering[f] + 0
      BY <1>3, <2>3, <3>2, Zenon DEF CloseCalls, Dial, RegisterConnection, BridgeTypes
    <3>6. unregistering[f] \in Nat
      BY Zenon DEF BridgeTypes
    <3>7. unregistering'[f] = unregistering[f]
      BY <3>5, <3>6, SMT
    <3> QED BY <3>3, <3>4, <3>7, Zenon
  <2> QED BY <2>1, <2>2, <2>3, Zenon DEF CalmEnd
<1>4. CASE ConnectRegisters(e)
  <2>1. UNCHANGED <<linkAt, linkOf, ended, pipeConn, connCount>>
    BY <1>4, Zenon DEF ConnectRegisters, routerVars
  <2>2. f # e => shutConns'[f] = shutConns[f] /\ unregistering'[f] = unregistering[f] /\ late'[f] = late[f]
    BY <1>4 DEF ConnectRegisters, RegisterConnection, BridgeTypes
  <2>3. ASSUME f = e
        PROVE  shutConns'[f] = shutConns[f] /\ unregistering'[f] = unregistering[f] /\ late'[f] = late[f]
    <3>1. registered[f] = 0
      BY <1>4, <2>3, Zenon DEF ConnectRegisters, ConnOK
    <3>2. {registered[f]} \ ({0} \cup shutConns[f]) = {}
      BY <3>1, Zenon
    <3>3. late' = late
      BY <1>4, <2>3, Zenon DEF ConnectRegisters, RegisterConnection, CalmEnd
    <3>4. shutConns'[f] = shutConns[f] \cup {}
      BY <1>4, <2>3, <3>2, Zenon DEF ConnectRegisters, RegisterConnection, BridgeTypes
    <3>5. unregistering'[f] = unregistering[f] + 0
      BY <1>4, <2>3, <3>2, Zenon DEF CloseCalls, ConnectRegisters, RegisterConnection, BridgeTypes
    <3>6. unregistering[f] \in Nat
      BY Zenon DEF BridgeTypes
    <3>7. unregistering'[f] = unregistering[f]
      BY <3>5, <3>6, SMT
    <3> QED BY <3>3, <3>4, <3>7, Zenon
  <2> QED BY <2>1, <2>2, <2>3, Zenon DEF CalmEnd
<1> QED BY <1>1, <1>2, <1>3, <1>4, Zenon DEF CalmAction

\* The endpoints are two.
LEMMA OtherEnds ==
  ASSUME NEW e \in Ends
  PROVE  OtherEnd(e) \in Ends /\ OtherEnd(OtherEnd(e)) = e
BY BridgeAssumption, Zenon DEF Ends, OtherEnd

\* Nothing is sent before A has dialed, so that whoever has a pipe has a connection once a
\* message is on its way (Dial, AddPipeConnection).
LEMMA SentKeepsPipes ==
  ASSUME \A f \in Ends : CalmPipe(f), NEW e \in Ends, ConnOK(e), connCount[e] \in Nat,
         UNCHANGED <<hasPipe, pipeConn>>, msgs \subseteq msgs', pipeConn[e] \in Nat,
         msgs # {} \/ pipeConn[e] # 0, NEW f \in Ends
  PROVE  CalmPipe(f)'
<1>1. CASE msgs # {}
  BY <1>1, Zenon DEF CalmPipe
<1>2. CASE msgs = {} /\ pipeConn[e] # 0
  <2>1. hasPipe[e]
    <3>1. pipeConn[e] <= connCount[e] /\ (~hasPipe[e] => connCount[e] = 0)
      BY Zenon DEF ConnOK
    <3> QED BY <1>2, <3>1, SMT
  <2>2. e = A
    BY <1>2, <2>1, Zenon DEF CalmPipe
  <2>3. hasPipe[f] => f = A
    BY <1>2, Zenon DEF CalmPipe
  <2>4. hasPipe'[f] => f = A /\ pipeConn'[f] # 0
    BY <1>2, <2>2, <2>3, Zenon
  <2> QED BY <2>4, Zenon DEF CalmPipe
<1> QED BY <1>1, <1>2, Zenon

\* CalmPipe is kept by the actions of a bridge of which nothing has ended.
LEMMA CalmPipeKeeps ==
  ASSUME BridgeTypes, NEW e \in Ends, ConnOK(e), CalmEnd(e), \A f \in Ends : CalmPipe(f),
         CalmAction(e), NEW f \in Ends
  PROVE  CalmPipe(f)'
<1>0. connCount[e] \in Nat /\ pipeConn[e] \in Nat
  BY DEF BridgeTypes
<1>1. CASE \/ \E kind \in HandshakeKinds : HandlePeer(e, kind) \/ HandleConnect(e, kind)
           \/ ForwardMessage(e) \/ ReceivedForwarded(e)
           \/ WriteHandshake(e) \/ WriteBridgedPacket(e) \/ ConnectRegisters(e)
  <2>1. UNCHANGED <<hasPipe, pipeConn>>
    BY <1>1, Zenon DEF HandlePeer, HandleConnect, ForwardMessage, ReceivedForwarded,
       WriteHandshake, WriteBridgedPacket, ConnectRegisters, bridgedVars
  <2>2. msgs \subseteq msgs'
    BY <1>1, Zenon DEF HandlePeer, HandleConnect, ForwardMessage, ReceivedForwarded,
       WriteHandshake, WriteBridgedPacket, ConnectRegisters, Apply, Send
  <2>3. ConnectRegisters(e) => pipeConn[e] = 1
    BY Zenon DEF ConnectRegisters, ConnOK, CalmEnd
  <2>4. msgs # {} \/ pipeConn[e] # 0
    <3>1. CASE ConnectRegisters(e)
      BY <2>3, <3>1
    <3>2. CASE WriteHandshake(e) \/ WriteBridgedPacket(e)
      BY <3>2, Zenon DEF WriteHandshake, WriteBridgedPacket, Usable
    <3>3. CASE \/ \E kind \in HandshakeKinds : HandlePeer(e, kind) \/ HandleConnect(e, kind)
               \/ ForwardMessage(e) \/ ReceivedForwarded(e)
      BY <3>3, Zenon DEF HandlePeer, HandleConnect, ForwardMessage, ReceivedForwarded
    <3> QED BY <1>1, <3>1, <3>2, <3>3, Zenon
  <2> QED BY <1>0, <2>1, <2>2, <2>4, SentKeepsPipes, Zenon
<1>2. ASSUME NEW kind \in HandshakeKinds, HandleFirstConnect(e, kind) PROVE CalmPipe(f)'
  <2>1. msgs # {} /\ msgs' = msgs
    BY <1>2, Zenon DEF HandleFirstConnect
  <2>2. f # e => hasPipe'[f] = hasPipe[f] /\ pipeConn'[f] = pipeConn[f]
    BY <1>2, Zenon DEF HandleFirstConnect, BridgeTypes
  <2>3. f = e => pipeConn'[f] # 0
    BY <1>0, <1>2 DEF HandleFirstConnect, BridgeTypes
  <2> QED BY <2>1, <2>2, <2>3, Zenon DEF CalmPipe
<1>3. CASE Dial(e)
  <2>1. msgs' = msgs /\ hasPipe' = hasPipe
    BY <1>3, Zenon DEF Dial
  <2>2. f # e => pipeConn'[f] = pipeConn[f]
    BY <1>3, Zenon DEF Dial, BridgeTypes
  <2>3. f = e => pipeConn'[f] # 0
    BY <1>0, <1>3 DEF Dial, BridgeTypes
  <2> QED BY <2>1, <2>2, <2>3, Zenon DEF CalmPipe
<1> QED BY <1>1, <1>2, <1>3, Zenon DEF CalmAction

\* The router has the route before the handshake goes on, and an endpoint writes packets
\* only after it has applied one (handle_peer, handle_connect).
LEMMA CalmRouteKeeps ==
  ASSUME BridgeTypes, NEW e \in Ends, ConnOK(e), CalmEnd(e), CalmPipe(e), CalmRoute(e),
         CalmAction(e), NEW f \in Ends, CalmRoute(f)
  PROVE  CalmRoute(f)'
<1> DEFINE Lines == UNCHANGED <<pipeConn, lineUp, connecting>>
<1>1. ASSUME NEW kind \in HandshakeKinds, HandlePeer(e, kind) PROVE CalmRoute(f)'
  <2>1. Lines /\ routes' = routes \cup {e} /\ msgs' = msgs \cup {ToEnd(OtherEnd(e), kind)}
    BY <1>1, Zenon DEF HandlePeer, RouteToken, Send, ToEnd, bridgedVars
  <2>2. \A k \in HandshakeKinds : ToEnd(f, k) = ToEnd(OtherEnd(e), kind) => OtherEnd(f) = e
    <3>1. \A k \in HandshakeKinds : ToEnd(f, k) = ToEnd(OtherEnd(e), kind) => f = OtherEnd(e)
      BY MessagesDiffer, Zenon
    <3>2. OtherEnd(OtherEnd(e)) = e
      BY OtherEnds, Zenon
    <3> QED BY <3>1, <3>2, Zenon
  <2>3. FromEnd(f, "packet") # ToEnd(OtherEnd(e), kind)
    BY MessagesDiffer, Zenon
  <2> QED BY <2>1, <2>2, <2>3, Zenon DEF CalmRoute
<1>2. CASE ForwardMessage(e)
  <2>1. Lines /\ routes' = routes
    BY <1>2, Zenon DEF ForwardMessage, bridgedVars, routerVars
  <2>2. msgs' = msgs \/ msgs' = msgs \cup {ToEnd(OtherEnd(e), "packet")}
    BY <1>2, Zenon DEF ForwardMessage, Send, ToEnd
  <2>3. \A k \in HandshakeKinds : ToEnd(f, k) # ToEnd(OtherEnd(e), "packet")
    <3>1. "packet" \notin HandshakeKinds
      BY DEF HandshakeKinds
    <3>2. \A k : ToEnd(f, k) = ToEnd(OtherEnd(e), "packet") => k = "packet"
      BY MessagesDiffer, Zenon
    <3> QED BY <3>1, <3>2, Zenon
  <2>4. FromEnd(f, "packet") # ToEnd(OtherEnd(e), "packet")
    BY MessagesDiffer, Zenon
  <2> QED BY <2>1, <2>2, <2>3, <2>4, Zenon DEF CalmRoute
<1>3. CASE ReceivedForwarded(e)
  BY <1>3, Zenon DEF ReceivedForwarded, CalmRoute, bridgedVars, routerVars
<1>4. CASE WriteHandshake(e)
  <2>1. Lines /\ routes' = routes /\ msgs' = msgs \cup {FromEnd(e, "request")}
    BY <1>4, Zenon DEF WriteHandshake, Send, FromEnd, bridgedVars, routerVars
  <2>2. \A k \in HandshakeKinds : ToEnd(f, k) # FromEnd(e, "request")
    BY MessagesDiffer, Zenon
  <2>3. FromEnd(f, "packet") # FromEnd(e, "request")
    BY MessagesDiffer
  <2> QED BY <2>1, <2>2, <2>3, Zenon DEF CalmRoute
<1>5. CASE WriteBridgedPacket(e)
  <2>1. Lines /\ routes' = routes /\ msgs' = msgs \cup {FromEnd(e, "packet")} /\ lineUp[e]
    BY <1>5, Zenon DEF WriteBridgedPacket, Send, FromEnd, bridgedVars, routerVars
  <2>2. \A k \in HandshakeKinds : ToEnd(f, k) # FromEnd(e, "packet")
    BY MessagesDiffer, Zenon
  <2>3. FromEnd(f, "packet") = FromEnd(e, "packet") => f = e
    BY MessagesDiffer, Zenon
  <2> QED BY <2>1, <2>2, <2>3, Zenon DEF CalmRoute
<1>6. CASE Dial(e)
  <2>1. msgs' = msgs /\ UNCHANGED <<lineUp, connecting, routes>>
    BY <1>6, Zenon DEF Dial, routerVars
  <2>2. pipeConn'[f] = pipeConn[f] \/ pipeConn'[f] # 0
    BY <1>6 DEF Dial, BridgeTypes
  <2> QED BY <2>1, <2>2, Zenon DEF CalmRoute
<1>7. ASSUME NEW kind \in HandshakeKinds, HandleFirstConnect(e, kind) PROVE CalmRoute(f)'
  <2>1. msgs' = msgs /\ UNCHANGED <<lineUp, routes>> /\ ToEnd(e, kind) \in msgs
    BY <1>7, Zenon DEF HandleFirstConnect, ToEnd, routerVars
  <2>2. pipeConn'[f] = pipeConn[f] \/ pipeConn'[f] # 0
    BY <1>7 DEF HandleFirstConnect, BridgeTypes
  <2>3. f # e => connecting'[f] = connecting[f]
    BY <1>7, Zenon DEF HandleFirstConnect, BridgeTypes
  <2>4. OtherEnd(e) \in routes
    BY <2>1, Zenon DEF CalmRoute
  <2> QED BY <2>1, <2>2, <2>3, <2>4, Zenon DEF CalmRoute
<1>8. ASSUME UNCHANGED <<routes, pipeConn>>, OtherEnd(e) \in routes, pipeConn[e] # 0,
             connecting'[f] = connecting[f] \/ connecting'[f] = "no",
             NEW kind, Apply(e, kind)
      PROVE  CalmRoute(f)'
  <2>1. (f # e => lineUp'[f] = lineUp[f]) /\ (lineUp[f] => lineUp'[f])
    BY <1>8, Zenon DEF Apply, BridgeTypes
  <2>2. msgs' = msgs \/ msgs' = msgs \cup {FromEnd(e, "response")}
    BY <1>8, Zenon DEF Apply, Send, FromEnd
  <2>3. \A k \in HandshakeKinds : ToEnd(f, k) # FromEnd(e, "response")
    BY MessagesDiffer, Zenon
  <2>4. FromEnd(f, "packet") # FromEnd(e, "response")
    BY MessagesDiffer
  <2> QED BY <1>8, <2>1, <2>2, <2>3, <2>4, Zenon DEF CalmRoute
<1>9. ASSUME NEW kind \in HandshakeKinds, HandleConnect(e, kind) PROVE CalmRoute(f)'
  <2>1. /\ UNCHANGED <<routes, pipeConn, connecting>> /\ Apply(e, kind)
        /\ hasPipe[e] /\ ToEnd(e, kind) \in msgs
    BY <1>9, Zenon DEF HandleConnect, ToEnd, routerVars
  <2>2. OtherEnd(e) \in routes /\ pipeConn[e] # 0
    BY <2>1, Zenon DEF CalmRoute, CalmPipe
  <2> QED BY <1>8, <2>1, <2>2, Zenon
<1>10. CASE ConnectRegisters(e)
  <2>1. /\ UNCHANGED <<routes, pipeConn>> /\ Apply(e, connecting[e]) /\ connecting[e] # "no"
        /\ (connecting'[f] = connecting[f] \/ connecting'[f] = "no")
    BY <1>10, Zenon DEF ConnectRegisters, routerVars, BridgeTypes
  <2>2. OtherEnd(e) \in routes /\ pipeConn[e] = 1
    BY <2>1, Zenon DEF CalmRoute, ConnOK, CalmEnd
  <2> QED BY <1>8, <2>1, <2>2
<1> QED BY <1>1, <1>2, <1>3, <1>4, <1>5, <1>6, <1>7, <1>9, <1>10, Zenon DEF CalmAction

\* While nothing has ended every packet that an endpoint may write finds its route, and the
\* connection that it is for (forwardMessage, received_packet).
LEMMA NothingLost ==
  ASSUME BridgeTypes, ~lost, NEW e \in Ends, HearsOK(e), ConnOK(e),
         endings = 0 => /\ \A f \in Ends : CalmEnd(f)
                        /\ CalmRoute(e),
         ForwardMessage(e) \/ ReceivedForwarded(e)
  PROVE  ~lost'
<1>1. CASE endings # 0
  BY <1>1, Zenon DEF ForwardMessage, ReceivedForwarded, AllWell
<1>2. CASE endings = 0 /\ ForwardMessage(e)
  <2>1. FromEnd(e, "packet") \in msgs
    BY <1>2, Zenon DEF ForwardMessage, FromEnd
  <2>2. OtherEnd(e) \in routes
    BY <1>2, <2>1, Zenon DEF CalmRoute
  <2>3. linkAt[OtherEnd(e)]
    BY <1>2, OtherEnds, Zenon DEF CalmEnd
  <2> QED BY <1>2, <2>2, <2>3, Zenon DEF ForwardMessage, lookupToken
<1>3. CASE endings = 0 /\ ReceivedForwarded(e)
  <2>1. lineUp[e] => Usable(e)
    BY <1>3, Zenon DEF CalmRoute, CalmEnd, Usable
  <2>2. lineUp[e] => registered[e] # 0 \/ connecting[e] # "no"
    BY <1>3, <2>1, Zenon DEF HearsOK, CalmEnd, Usable
  <2> QED BY <1>3, <2>2, Zenon DEF ReceivedForwarded, lookupConnection
<1> QED BY <1>1, <1>2, <1>3, Zenon

\* The invariant holds when A is about to dial (newBridge).
LEMMA BridgeInvInit ==
  ASSUME BridgeInit
  PROVE  BridgeInv
<1>1. BridgeTypes
  BY DEF BridgeInit, BridgeTypes
<1>2. ASSUME NEW e \in Ends PROVE ConnOK(e) /\ HearsOK(e)
  BY DEF BridgeInit, ConnOK, HearsOK, Usable
<1>3. ASSUME NEW e \in Ends PROVE CalmEnd(e) /\ CalmPipe(e) /\ CalmRoute(e)
  BY Zenon DEF BridgeInit, CalmEnd, CalmPipe, CalmRoute
<1> QED BY <1>1, <1>2, <1>3, Zenon DEF BridgeInv, BridgeInit

\* Every step of an endpoint or the router keeps the invariant.
LEMMA BridgeInvStep ==
  ASSUME BridgeInv, BridgeNext
  PROVE  BridgeInv'
<1>0. BridgeTypes /\ ~lost /\ \A e \in Ends : ConnOK(e) /\ HearsOK(e)
  BY Zenon DEF BridgeInv
<1>1. BridgeTypes'
  BY <1>0, BridgeTypesStep, Zenon
<1>2. \A f \in Ends : ConnOK(f)' /\ HearsOK(f)'
  BY <1>0, EndsStep, Zenon
<1>3. PICK e \in Ends : CalmAction(e) \/ EndingAction(e)
  BY BridgeActions, Zenon
<1>4. ~lost'
  <2>1. CASE ForwardMessage(e) \/ ReceivedForwarded(e)
    BY <1>0, <2>1, NothingLost, Zenon DEF BridgeInv
  <2>2. CASE EndingAction(e)
    BY <1>0, <2>2, Zenon DEF EndingAction, LinkAtRouterCloses, LinkAtRouterReturns,
       LinkOfEndCloses, LinkOfEndReturns, BridgedExpires, UnregisterConnection, ReaderEnds
  <2>3. CASE \/ \E kind \in HandshakeKinds :
                HandlePeer(e, kind) \/ HandleConnect(e, kind) \/ HandleFirstConnect(e, kind)
             \/ Dial(e) \/ WriteHandshake(e) \/ WriteBridgedPacket(e) \/ ConnectRegisters(e)
    BY <1>0, <2>3, Zenon DEF HandlePeer, HandleConnect, HandleFirstConnect, Dial, WriteHandshake,
       WriteBridgedPacket, ConnectRegisters
  <2> QED BY <1>3, <2>1, <2>2, <2>3, Zenon DEF CalmAction
<1>5. ASSUME endings' = 0, NEW f \in Ends
      PROVE  CalmEnd(f)' /\ CalmPipe(f)' /\ CalmRoute(f)'
  <2>1. endings = 0
    BY <1>0, <1>5, EndingsStay, Zenon
  <2>2. \A g \in Ends : CalmEnd(g) /\ CalmPipe(g) /\ CalmRoute(g)
    BY <2>1, Zenon DEF BridgeInv
  <2>3. CalmAction(e)
    BY <1>0, <1>3, <1>5, <2>1, <2>2, CalmActions, Zenon
  <2>4. CalmEnd(f)'
    BY <1>0, <2>2, <2>3, CalmEndKeeps, Zenon
  <2>5. CalmPipe(f)'
    BY <1>0, <2>2, <2>3, CalmPipeKeeps, Zenon
  <2>6. CalmRoute(f)'
    BY <1>0, <2>2, <2>3, CalmRouteKeeps, Zenon
  <2> QED BY <2>4, <2>5, <2>6
<1> QED BY <1>1, <1>2, <1>4, <1>5, Zenon DEF BridgeInv

\* So does a step of something else.
LEMMA BridgeInvStutter ==
  ASSUME BridgeInv, UNCHANGED bridgeVars
  PROVE  BridgeInv'
<1> USE DEF bridgeVars, routerVars, connVars, bridgedVars
<1>1. BridgeTypes' /\ ~lost'
  BY Zenon DEF BridgeInv, BridgeTypes
<1>2. ASSUME NEW e \in Ends PROVE ConnOK(e)' /\ HearsOK(e)'
  BY Zenon DEF BridgeInv, ConnOK, HearsOK, Usable
<1>3. ASSUME endings' = 0, NEW e \in Ends PROVE CalmEnd(e)' /\ CalmPipe(e)' /\ CalmRoute(e)'
  BY <1>3, Zenon DEF BridgeInv, CalmEnd, CalmPipe, CalmRoute
<1> QED BY <1>1, <1>2, <1>3, Zenon DEF BridgeInv

\* No packet is lost between bridged endpoints while the links are up and the exchanges
\* live, and the connection of a pipe is registered as long as it is open, and no longer,
\* except for a late one (bridge.go, channel_peer.go, channel_connect.go): for every bound
\* on connections and endings.
THEOREM BridgedEndsHear == BridgeSpec => [](BridgedPacketsArrive /\ BridgedPipeHears)
<1>1. BridgeInit => BridgeInv
  BY BridgeInvInit
<1>2. BridgeInv /\ [BridgeNext]_bridgeVars => BridgeInv'
  BY BridgeInvStep, BridgeInvStutter
<1>3. BridgeInv => BridgedPacketsArrive /\ BridgedPipeHears
  BY Zenon DEF BridgeInv, BridgedPacketsArrive, BridgedPipeHears, HearsOK
<1> QED BY <1>1, <1>2, <1>3, PTL DEF BridgeSpec
-----------------------------------------------------------------------------
(* Introductions                                                           *)

CallerPlaces == {"idle", "dial", "wait", "asleep", "returned"}

CallersOK ==
  caller \in [Callers -> [at : CallerPlaces, of : 0..introductions, keys : SUBSET KeyIds]]

IntroductionTypes ==
  /\ introductions \in Nat /\ introductions <= MaxIntroductions
  /\ pending \in 0..introductions /\ done \subseteq 1..introductions
  /\ timers \subseteq 1..introductions /\ firing \subseteq 1..introductions
  /\ DOMAIN outcome = Introductions /\ DOMAIN connect = Connects
  /\ \A h \in Connects : connect[h].of \in 0..introductions

\* An introduction that is made has a timer until it is resolved.
TimersOK(i) ==
  /\ i \notin done => i \in timers \cup firing
  /\ i \in done => i \notin timers /\ pending # i /\ outcome[i] # "none"

Waiting(i) == \E c \in Callers : caller[c].at = "wait" /\ caller[c].of = i

\* Who sleeps though the introduction is resolved has someone to wake them.
SleepersOK(i) == i \in done /\ Asleep(i) # {} => Waiting(i)

ReturnedOK == \A c \in Callers : caller[c].at = "returned" => caller[c].of \in done

\* The inductive invariant.
IntroductionInv ==
  /\ IntroductionTypes /\ CallersOK /\ ReturnedOK
  /\ \A i \in 1..introductions : TimersOK(i) /\ SleepersOK(i)

\* What an introduction is resolved with.
Results == {"timeout", "exchange"}

\* Resolve leaves the types as they are.
LEMMA ResolveTypes ==
  ASSUME IntroductionTypes, NEW i \in 1..introductions, NEW result, Resolve(i, result)
  PROVE  /\ pending' \in 0..introductions /\ done' \subseteq 1..introductions
         /\ timers' \subseteq 1..introductions /\ DOMAIN outcome' = Introductions
<1>1. introductions \in Nat
  BY DEF IntroductionTypes
<1>2. pending' = 0
  BY Zenon DEF Resolve
<1>3. done' = done \/ done' = done \cup {i}
  BY Zenon DEF Resolve
<1>4. timers' = timers \/ timers' = timers \ {i}
  BY Zenon DEF Resolve
<1>5. outcome' = outcome \/ outcome' = [outcome EXCEPT ![i] = result]
  BY Zenon DEF Resolve
<1>6. DOMAIN outcome' = Introductions
  BY <1>5, Zenon DEF IntroductionTypes
<1>7. pending' \in 0..introductions
  BY <1>1, <1>2
<1>8. done' \subseteq 1..introductions
  BY <1>3, Zenon DEF IntroductionTypes
<1>9. timers' \subseteq 1..introductions
  BY <1>4, Zenon DEF IntroductionTypes
<1> QED BY <1>6, <1>7, <1>8, <1>9, Zenon

\* What the steps do to the numbers of introductions.
LEMMA IntroductionTypesStep ==
  ASSUME IntroductionTypes, IntroductionNext
  PROVE  IntroductionTypes'
<1>1. ASSUME NEW c \in Callers, IntroduceVia(c) \/ Wait(c) \/ CallAgain(c)
      PROVE  IntroductionTypes'
  BY <1>1, Zenon DEF IntroduceVia, Wait, CallAgain, IntroductionTypes, timerState
<1>2. ASSUME NEW c \in Callers, RegisterIntroduction(c)
      PROVE  IntroductionTypes'
  <2>1. CASE UNCHANGED <<introductions, pending, timers>>
    BY <1>2, <2>1, Zenon DEF RegisterIntroduction, IntroductionTypes
  <2>2. CASE /\ introductions < MaxIntroductions
             /\ introductions' = introductions + 1 /\ pending' = introductions + 1
             /\ timers' = timers \cup {introductions + 1}
    <3>1. UNCHANGED <<done, outcome, firing, connect>>
      BY <1>2, Zenon DEF RegisterIntroduction
    <3>2. introductions' \in Nat /\ introductions' <= MaxIntroductions
      BY <2>2, IntroductionAssumption DEF IntroductionTypes
    <3>3. /\ 0..introductions \subseteq 0..introductions' /\ 1..introductions \subseteq 1..introductions'
          /\ introductions + 1 \in 1..introductions' /\ introductions + 1 \in 0..introductions'
      BY <2>2, <3>2 DEF IntroductionTypes
    <3> QED BY <2>2, <3>1, <3>2, <3>3, Zenon DEF IntroductionTypes
  <2> QED BY <1>2, <2>1, <2>2, Zenon DEF RegisterIntroduction
<1>3. ASSUME NEW i \in Introductions, TimerFires(i)
      PROVE  IntroductionTypes'
  BY <1>3, Zenon DEF TimerFires, IntroductionTypes
<1>4. ASSUME NEW i \in Introductions, Timeout(i)
      PROVE  IntroductionTypes'
  <2>1. i \in 1..introductions
    BY <1>4, Zenon DEF Timeout, IntroductionTypes
  <2>2. Resolve(i, "timeout") /\ firing' = firing \ {i} /\ UNCHANGED <<introductions, connect>>
    BY <1>4, Zenon DEF Timeout
  <2> QED BY <2>1, <2>2, ResolveTypes, Zenon DEF IntroductionTypes
<1>5. ASSUME NEW h \in Connects, GetIntroduction(h)
      PROVE  IntroductionTypes'
  <2>1. UNCHANGED <<introductions, pending, done, outcome, timers, firing>>
    BY <1>5, Zenon DEF GetIntroduction, timerState
  <2>2. connect' = [connect EXCEPT ![h] = [at |-> "resolve", of |-> pending]]
    BY <1>5, Zenon DEF GetIntroduction
  <2>3. \A g \in Connects : connect'[g].of \in 0..introductions
    BY <2>2 DEF IntroductionTypes
  <2>4. DOMAIN connect' = Connects
    BY <2>2, Zenon DEF IntroductionTypes
  <2> QED BY <2>1, <2>3, <2>4, Zenon DEF IntroductionTypes
<1>6. ASSUME NEW h \in Connects, ConnectResolves(h)
      PROVE  IntroductionTypes'
  <2>0. introductions \in Nat
    BY DEF IntroductionTypes
  <2>1. UNCHANGED <<introductions, firing>>
    BY <1>6, Zenon DEF ConnectResolves
  <2>2. connect' = [connect EXCEPT ![h] = [at |-> "idle", of |-> 0]]
    BY <1>6, Zenon DEF ConnectResolves
  <2>3. \A g \in Connects : connect'[g].of \in 0..introductions
    BY <2>0, <2>2 DEF IntroductionTypes
  <2>4. DOMAIN connect' = Connects
    BY <2>2, Zenon DEF IntroductionTypes
  <2>5. CASE connect[h].of = 0
    <3>1. UNCHANGED <<pending, done, outcome, timers>>
      BY <1>6, <2>5, Zenon DEF ConnectResolves
    <3> QED BY <2>1, <2>3, <2>4, <3>1, Zenon DEF IntroductionTypes
  <2>6. CASE connect[h].of # 0
    <3>1. Resolve(connect[h].of, "exchange")
      BY <1>6, <2>6, Zenon DEF ConnectResolves
    <3>2. connect[h].of \in 1..introductions
      BY <2>0, <2>6 DEF IntroductionTypes
    <3> QED BY <2>1, <2>3, <2>4, <3>1, <3>2, ResolveTypes, Zenon DEF IntroductionTypes
  <2> QED BY <2>5, <2>6
<1> QED BY <1>1, <1>2, <1>3, <1>4, <1>5, <1>6, Zenon DEF IntroductionNext

\* A step resolves an introduction, or lets a timer fire, or is one of a caller, or does
\* nothing to introductions.
ResolvesOne(i) ==
  /\ \E result \in Results : Resolve(i, result)
  /\ introductions' = introductions /\ firing \ {i} \subseteq firing'

\* The steps, by what they do to introductions (resolve, registerIntroduction, wait).
LEMMA IntroductionActions ==
  ASSUME IntroductionTypes, IntroductionNext
  PROVE  \/ \E i \in 1..introductions : ResolvesOne(i)
         \/ \E i \in 1..introductions : TimerFires(i)
         \/ UNCHANGED <<introductions, pending, done, outcome, timers, firing, caller>>
         \/ \E c \in Callers :
              RegisterIntroduction(c) \/ IntroduceVia(c) \/ Wait(c) \/ CallAgain(c)
<1>1. ASSUME NEW i \in Introductions, TimerFires(i) PROVE i \in 1..introductions
  BY <1>1, Zenon DEF TimerFires, IntroductionTypes
<1>2. ASSUME NEW i \in Introductions, Timeout(i) PROVE i \in 1..introductions /\ ResolvesOne(i)
  BY <1>2, Zenon DEF Timeout, IntroductionTypes, ResolvesOne, Results
<1>3. ASSUME NEW h \in Connects, GetIntroduction(h)
      PROVE  UNCHANGED <<introductions, pending, done, outcome, timers, firing, caller>>
  BY <1>3, Zenon DEF GetIntroduction, timerState
<1>4. ASSUME NEW h \in Connects, ConnectResolves(h)
      PROVE  \/ \E i \in 1..introductions : ResolvesOne(i)
             \/ UNCHANGED <<introductions, pending, done, outcome, timers, firing, caller>>
  <2>1. CASE connect[h].of = 0
    BY <1>4, <2>1, Zenon DEF ConnectResolves
  <2>2. CASE connect[h].of # 0
    <3>1. ResolvesOne(connect[h].of)
      BY <1>4, <2>2, Zenon DEF ConnectResolves, ResolvesOne, Results
    <3>2. connect[h].of \in 1..introductions
      BY <2>2 DEF IntroductionTypes
    <3> QED BY <3>1, <3>2, Zenon
  <2> QED BY <2>1, <2>2
<1> QED BY <1>1, <1>2, <1>3, <1>4, Zenon DEF IntroductionNext

\* Waking changes a caller's place only.
LEMMA AwakenedIs ==
  ASSUME NEW w, NEW f \in [Callers -> [at : CallerPlaces, of : 0..introductions,
                                       keys : SUBSET KeyIds]]
  PROVE  /\ Awakened(f, w) \in [Callers -> [at : CallerPlaces, of : 0..introductions,
                                            keys : SUBSET KeyIds]]
         /\ \A c \in Callers :
              /\ c \in w => Awakened(f, w)[c].at = "wait" /\ Awakened(f, w)[c].of = f[c].of
              /\ c \notin w => Awakened(f, w)[c] = f[c]
<1>1. ASSUME NEW c \in Callers
      PROVE  /\ [f[c] EXCEPT !.at = "wait"] \in [at : CallerPlaces, of : 0..introductions,
                                                 keys : SUBSET KeyIds]
             /\ [f[c] EXCEPT !.at = "wait"].at = "wait"
             /\ [f[c] EXCEPT !.at = "wait"].of = f[c].of
  BY DEF CallerPlaces
<1> QED BY <1>1, Zenon DEF Awakened

\* One of those that sleep is woken, if there is one (Signal).
LEMMA WokenIs ==
  ASSUME NEW i, NEW w \in Woken(i)
  PROVE  /\ Asleep(i) = {} => w = {}
         /\ Asleep(i) # {} => \E c \in Asleep(i) : w = {c}
BY Zenon DEF Woken

\* Who sleeps is at that place, of that introduction.
LEMMA AsleepIs ==
  ASSUME NEW i, NEW c \in Asleep(i)
  PROVE  c \in Callers /\ caller[c].at = "asleep" /\ caller[c].of = i
<1>1. caller[c] = [at |-> "asleep", of |-> i, keys |-> {}] /\ c \in Callers
  BY Zenon DEF Asleep
<1> QED BY <1>1

\* How a step changes the caller that takes it.
Moves(c) ==
  /\ \A d \in Callers \ {c} : caller'[d] = caller[d]
  /\ caller' \in [Callers -> [at : CallerPlaces, of : 0..introductions', keys : SUBSET KeyIds]]
  /\ done' = done /\ 1..introductions \subseteq 1..introductions'
  /\ caller'[c].at = "returned" => caller'[c].of \in done
  /\ caller'[c].at = "asleep" => caller'[c].of \notin done
  /\ caller[c].at = "wait" => caller[c].of \notin done

\* A caller that registers moves (registerIntroduction).
LEMMA MovesRegister ==
  ASSUME IntroductionTypes, CallersOK, NEW c \in Callers, RegisterIntroduction(c)
  PROVE  Moves(c)
<1>0. introductions \in Nat /\ pending \in 0..introductions
  BY DEF IntroductionTypes
<1>1. caller[c].at = "idle"
  BY DEF RegisterIntroduction, IdleCaller
<1>2. done' = done
  BY Zenon DEF RegisterIntroduction
<1>3. introductions' = introductions \/ introductions' = introductions + 1
  BY Zenon DEF RegisterIntroduction
<1>4. 0..introductions \subseteq 0..introductions' /\ 1..introductions \subseteq 1..introductions'
  BY <1>0, <1>3
<1>5. PICK r \in [at : {"wait", "dial"}, of : 0..introductions', keys : SUBSET KeyIds] :
        caller' = [caller EXCEPT ![c] = r]
  <2>1. CASE /\ UNCHANGED introductions
             /\ caller' = [caller EXCEPT ![c] = [at |-> "wait", of |-> pending, keys |-> {}]]
    <3>1. [at |-> "wait", of |-> pending, keys |-> {}] \in
            [at : {"wait", "dial"}, of : 0..introductions', keys : SUBSET KeyIds]
      BY <1>0, <2>1
    <3> QED BY <2>1, <3>1, Zenon
  <2>2. CASE /\ introductions' = introductions + 1
             /\ caller' = [caller EXCEPT ![c] = [at |-> "dial", of |-> introductions + 1, keys |-> KeyIds]]
    <3>1. [at |-> "dial", of |-> introductions + 1, keys |-> KeyIds] \in
            [at : {"wait", "dial"}, of : 0..introductions', keys : SUBSET KeyIds]
      BY <1>0, <2>2
    <3> QED BY <2>2, <3>1, Zenon
  <2> QED BY <2>1, <2>2, Zenon DEF RegisterIntroduction
<1>6. r.at \notin {"returned", "asleep"} /\ r \in [at : CallerPlaces, of : 0..introductions', keys : SUBSET KeyIds]
  BY <1>5 DEF CallerPlaces
<1>7. caller'[c] = r /\ \A d \in Callers \ {c} : caller'[d] = caller[d]
  BY <1>5, Zenon DEF CallersOK
<1>8. \A d \in Callers : caller[d] \in [at : CallerPlaces, of : 0..introductions', keys : SUBSET KeyIds]
  BY <1>4 DEF CallersOK
<1>9. caller' \in [Callers -> [at : CallerPlaces, of : 0..introductions', keys : SUBSET KeyIds]]
  BY <1>5, <1>6, <1>8, Zenon DEF CallersOK
<1>10. caller[c].at # "wait"
  BY <1>1
<1>11. caller'[c].at # "returned" /\ caller'[c].at # "asleep"
  BY <1>6, <1>7, Zenon
<1> QED BY <1>2, <1>4, <1>7, <1>9, <1>10, <1>11, Zenon DEF Moves

\* So does one that sends its keys, goes to sleep or calls again (introduceVia, wait).
LEMMA MovesOthers ==
  ASSUME IntroductionTypes, CallersOK, NEW c \in Callers,
         \/ IntroduceVia(c) \/ CallAgain(c)
         \/ Wait(c) /\ caller[c].of \notin done
  PROVE  Moves(c)
<1>0. introductions \in Nat /\ introductions' = introductions /\ done' = done
  <2>1. introductions' = introductions /\ done' = done
    BY Zenon DEF IntroduceVia, Wait, CallAgain
  <2> QED BY <2>1 DEF IntroductionTypes
<1>1. caller[c] \in [at : CallerPlaces, of : 0..introductions, keys : SUBSET KeyIds]
  BY Zenon DEF CallersOK
<1>2. PICK r \in [at : CallerPlaces, of : 0..introductions, keys : SUBSET KeyIds] :
        /\ caller' = [caller EXCEPT ![c] = r]
        /\ r.at # "returned" /\ (r.at = "asleep" => r.of \notin done)
        /\ caller[c].at = "wait" => caller[c].of \notin done
  <2>1. CASE CallAgain(c)
    <3>1. IdleCaller \in [at : CallerPlaces, of : 0..introductions, keys : SUBSET KeyIds] /\ IdleCaller.at = "idle"
      BY <1>0 DEF IdleCaller, CallerPlaces
    <3> QED BY <2>1, <3>1, Zenon DEF CallAgain
  <2>2. CASE Wait(c) /\ caller[c].of \notin done
    <3>1. caller' = [caller EXCEPT ![c] = [caller[c] EXCEPT !.at = "asleep"]]
      BY <2>2 DEF Wait, CallersOK
    <3>2. [caller[c] EXCEPT !.at = "asleep"] \in [at : CallerPlaces, of : 0..introductions, keys : SUBSET KeyIds]
      BY <1>1 DEF CallerPlaces
    <3>3. [caller[c] EXCEPT !.at = "asleep"].at = "asleep" /\ [caller[c] EXCEPT !.at = "asleep"].of = caller[c].of
      BY <1>1
    <3> QED BY <2>2, <3>1, <3>2, <3>3, Zenon
  <2>3. ASSUME IntroduceVia(c), NEW k \in SUBSET KeyIds, NEW p \in {"dial", "wait"},
               caller' = [caller EXCEPT ![c] = [caller[c] EXCEPT !.at = p, !.keys = k]]
        PROVE  \E r \in [at : CallerPlaces, of : 0..introductions, keys : SUBSET KeyIds] :
                 /\ caller' = [caller EXCEPT ![c] = r]
                 /\ r.at # "returned" /\ (r.at = "asleep" => r.of \notin done)
                 /\ caller[c].at = "wait" => caller[c].of \notin done
    <3>1. [caller[c] EXCEPT !.at = p, !.keys = k] \in [at : CallerPlaces, of : 0..introductions, keys : SUBSET KeyIds]
      BY <1>1, Zenon DEF CallerPlaces
    <3>2. [caller[c] EXCEPT !.at = p, !.keys = k].at = p
      BY <1>1
    <3>3. caller[c].at # "wait"
      BY <2>3 DEF IntroduceVia
    <3> QED BY <2>3, <3>1, <3>2, <3>3, Zenon
  <2>4. CASE IntroduceVia(c)
    <3>1. ASSUME NEW csid \in caller[c].keys, caller' = [caller EXCEPT ![c].keys = @ \ {csid}]
          PROVE  /\ caller[c].keys \ {csid} \in SUBSET KeyIds
                 /\ caller' = [caller EXCEPT ![c] = [caller[c] EXCEPT !.at = "dial",
                                                       !.keys = caller[c].keys \ {csid}]]
      <4>1. caller[c].at = "dial"
        BY <2>4 DEF IntroduceVia
      <4>2. [caller[c] EXCEPT !.keys = caller[c].keys \ {csid}] =
              [caller[c] EXCEPT !.at = "dial", !.keys = caller[c].keys \ {csid}]
        BY <1>1, <4>1, Zenon
      <4>3. caller' = [caller EXCEPT ![c] = [caller[c] EXCEPT !.keys = caller[c].keys \ {csid}]]
        BY <3>1 DEF CallersOK
      <4>4. caller[c].keys \ {csid} \in SUBSET KeyIds
        BY <1>1
      <4> QED BY <4>2, <4>3, <4>4, Zenon
    <3>2. ASSUME caller' = [caller EXCEPT ![c].at = "wait", ![c].keys = {}]
          PROVE  caller' = [caller EXCEPT ![c] = [caller[c] EXCEPT !.at = "wait", !.keys = {}]]
      BY <3>2, Zenon DEF CallersOK
    <3>3. {} \in SUBSET KeyIds /\ "wait" \in {"dial", "wait"} /\ "dial" \in {"dial", "wait"}
      BY Zenon
    <3> QED BY <2>3, <2>4, <3>1, <3>2, <3>3, Zenon DEF IntroduceVia
  <2> QED BY <2>1, <2>2, <2>4, Zenon
<1>3. caller'[c] = r /\ \A d \in Callers \ {c} : caller'[d] = caller[d]
  BY <1>2, Zenon DEF CallersOK
<1>4. caller' \in [Callers -> [at : CallerPlaces, of : 0..introductions, keys : SUBSET KeyIds]]
  BY <1>2, Zenon DEF CallersOK
<1> QED BY <1>0, <1>2, <1>3, <1>4, Zenon DEF Moves

\* A caller that moves leaves the others as well off as they were.
LEMMA MovesKeep ==
  ASSUME CallersOK, ReturnedOK, NEW c \in Callers, Moves(c)
  PROVE  /\ CallersOK' /\ ReturnedOK'
         /\ \A i \in 1..introductions : SleepersOK(i) => SleepersOK(i)'
<1>1. CallersOK'
  BY Zenon DEF Moves, CallersOK
<1>2. ReturnedOK'
  BY Zenon DEF Moves, ReturnedOK
<1>3. ASSUME NEW i \in 1..introductions, SleepersOK(i), i \in done', Asleep(i)' # {}
      PROVE  Waiting(i)'
  <2>1. PICK d \in Callers : caller'[d] = [at |-> "asleep", of |-> i, keys |-> {}]
    BY <1>3, Zenon DEF Asleep
  <2>2. caller'[d].at = "asleep" /\ caller'[d].of = i
    BY <2>1
  <2>3. i \in done
    BY <1>3, Zenon DEF Moves
  <2>4. d # c
    BY <2>2, <2>3, Zenon DEF Moves
  <2>5. d \in Asleep(i)
    BY <2>1, <2>4, Zenon DEF Asleep, Moves
  <2>6. PICK e \in Callers : caller[e].at = "wait" /\ caller[e].of = i
    BY <1>3, <2>3, <2>5, Zenon DEF SleepersOK, Waiting
  <2>7. e # c
    BY <2>3, <2>6, Zenon DEF Moves
  <2> QED BY <2>6, <2>7, Zenon DEF Waiting, Moves
<1> QED BY <1>1, <1>2, <1>3, Zenon DEF SleepersOK

\* The caller that returns wakes the next one (wait).
LEMMA WaitKeeps ==
  ASSUME IntroductionTypes, CallersOK, ReturnedOK, NEW c \in Callers, Wait(c), caller[c].of \in done
  PROVE  /\ CallersOK' /\ ReturnedOK' /\ introductions' = introductions
         /\ \A i \in 1..introductions : SleepersOK(i) => SleepersOK(i)'
<1> DEFINE f == [caller EXCEPT ![c] = [caller[c] EXCEPT !.at = "returned"]]
           j == caller[c].of
<1>0. caller[c] \in [at : CallerPlaces, of : 0..introductions, keys : SUBSET KeyIds]
  BY Zenon DEF CallersOK
<1>1. PICK w \in Woken(j) : caller' = Awakened(f, w)
  BY Zenon DEF Wait, CallersOK
<1>2. caller[c].at = "wait" /\ done' = done /\ introductions' = introductions
  BY Zenon DEF Wait
<1>3. /\ [caller[c] EXCEPT !.at = "returned"] \in [at : CallerPlaces, of : 0..introductions, keys : SUBSET KeyIds]
      /\ [caller[c] EXCEPT !.at = "returned"].at = "returned"
      /\ [caller[c] EXCEPT !.at = "returned"].of = j
  BY <1>0 DEF CallerPlaces
<1>4. f \in [Callers -> [at : CallerPlaces, of : 0..introductions, keys : SUBSET KeyIds]]
  BY <1>3, Zenon DEF CallersOK
<1>5. f[c].at = "returned" /\ f[c].of = j /\ \A d \in Callers \ {c} : f[d] = caller[d]
  BY <1>3, Zenon DEF CallersOK
<1>6. w \subseteq Asleep(j)
  <2>1. (Asleep(j) = {} => w = {}) /\ (Asleep(j) # {} => \E d \in Asleep(j) : w = {d})
    BY WokenIs
  <2> QED BY <2>1, Zenon
<1>7. c \notin w
  BY <1>2, <1>6, AsleepIs
<1> HIDE DEF f
<1>8. /\ caller' \in [Callers -> [at : CallerPlaces, of : 0..introductions, keys : SUBSET KeyIds]]
      /\ \A d \in Callers :
           /\ d \in w => caller'[d].at = "wait" /\ caller'[d].of = f[d].of
           /\ d \notin w => caller'[d] = f[d]
  <2>1. /\ Awakened(f, w) \in [Callers -> [at : CallerPlaces, of : 0..introductions, keys : SUBSET KeyIds]]
        /\ \A d \in Callers :
             /\ d \in w => Awakened(f, w)[d].at = "wait" /\ Awakened(f, w)[d].of = f[d].of
             /\ d \notin w => Awakened(f, w)[d] = f[d]
    BY <1>4, AwakenedIs
  <2> QED BY <1>1, <2>1, Zenon
<1>9. CallersOK'
  BY <1>2, <1>8, Zenon DEF CallersOK
<1>10. ReturnedOK'
  <2>1. SUFFICES ASSUME NEW d \in Callers, caller'[d].at = "returned" PROVE caller'[d].of \in done
    BY <1>2, Zenon DEF ReturnedOK
  <2>2. d \notin w
    BY <1>8, <2>1
  <2>3. caller'[d] = f[d]
    BY <1>8, <2>2, Zenon
  <2> QED BY <1>5, <2>1, <2>3, Zenon DEF ReturnedOK
<1>11. ASSUME NEW i \in 1..introductions, SleepersOK(i), i \in done', Asleep(i)' # {}
       PROVE  Waiting(i)'
  <2>1. PICK d \in Callers : caller'[d] = [at |-> "asleep", of |-> i, keys |-> {}]
    BY <1>11, Zenon DEF Asleep
  <2>2. caller'[d].at = "asleep" /\ caller'[d].of = i
    BY <2>1
  <2>3. d \notin w
    BY <1>8, <2>2
  <2>4. d # c
    BY <1>5, <1>8, <2>2, <2>3
  <2>5. d \in Asleep(i)
    BY <1>5, <1>8, <2>1, <2>3, <2>4, Zenon DEF Asleep
  <2>6. CASE i = j
    <3>1. PICK g \in Asleep(j) : w = {g}
      BY <2>5, <2>6, WokenIs, Zenon
    <3>2. g \in Callers /\ caller[g].of = j
      BY AsleepIs, Zenon
    <3>3. g # c
      BY <1>7, <3>1, Zenon
    <3>4. f[g].of = j
      BY <1>5, <3>2, <3>3, Zenon
    <3>5. caller'[g].at = "wait" /\ caller'[g].of = j
      BY <1>8, <3>1, <3>2, <3>4, Zenon
    <3> QED BY <2>6, <3>2, <3>5, Zenon DEF Waiting
  <2>7. CASE i # j
    <3>1. PICK g \in Callers : caller[g].at = "wait" /\ caller[g].of = i
      BY <1>2, <1>11, <2>5, Zenon DEF SleepersOK, Waiting
    <3>2. f[g] = caller[g]
      BY <1>5, <2>7, <3>1, Zenon
    <3>3. caller'[g].at = "wait" /\ caller'[g].of = i
      BY <1>8, <3>1, <3>2, Zenon
    <3> QED BY <3>1, <3>3, Zenon DEF Waiting
  <2> QED BY <2>6, <2>7
<1> QED BY <1>2, <1>9, <1>10, <1>11, Zenon DEF SleepersOK

\* An introduction that is resolved wakes one of those that sleep (resolve).
LEMMA ResolveKeeps ==
  ASSUME IntroductionTypes, CallersOK, ReturnedOK, NEW j \in 1..introductions, ResolvesOne(j)
  PROVE  /\ CallersOK' /\ ReturnedOK'
         /\ \A i \in 1..introductions : SleepersOK(i) => SleepersOK(i)'
<1>0. introductions' = introductions
  BY Zenon DEF ResolvesOne
<1>1. CASE j \in done
  <2>1. UNCHANGED <<done, caller>>
    BY <1>1, Zenon DEF ResolvesOne, Resolve
  <2> QED BY <1>0, <2>1, Zenon DEF CallersOK, ReturnedOK, SleepersOK, Waiting, Asleep
<1>2. CASE j \notin done
  <2>1. PICK w \in Woken(j) : caller' = Awakened(caller, w)
    BY <1>2, Zenon DEF ResolvesOne, Resolve
  <2>2. done' = done \cup {j}
    BY <1>2, Zenon DEF ResolvesOne, Resolve
  <2>3. /\ caller' \in [Callers -> [at : CallerPlaces, of : 0..introductions, keys : SUBSET KeyIds]]
        /\ \A d \in Callers :
             /\ d \in w => caller'[d].at = "wait" /\ caller'[d].of = caller[d].of
             /\ d \notin w => caller'[d] = caller[d]
    <3>1. caller \in [Callers -> [at : CallerPlaces, of : 0..introductions, keys : SUBSET KeyIds]]
      BY Zenon DEF CallersOK
    <3>2. /\ Awakened(caller, w) \in [Callers -> [at : CallerPlaces, of : 0..introductions, keys : SUBSET KeyIds]]
          /\ \A d \in Callers :
               /\ d \in w => Awakened(caller, w)[d].at = "wait" /\ Awakened(caller, w)[d].of = caller[d].of
               /\ d \notin w => Awakened(caller, w)[d] = caller[d]
      BY <3>1, AwakenedIs
    <3> QED BY <2>1, <3>2, Zenon
  <2>4. CallersOK'
    BY <1>0, <2>3, Zenon DEF CallersOK
  <2>5. ReturnedOK'
    <3>1. SUFFICES ASSUME NEW d \in Callers, caller'[d].at = "returned" PROVE caller'[d].of \in done'
      BY Zenon DEF ReturnedOK
    <3>2. d \notin w
      BY <2>3, <3>1
    <3> QED BY <2>2, <2>3, <3>1, <3>2, Zenon DEF ReturnedOK
  <2>6. ASSUME NEW i \in 1..introductions, SleepersOK(i), i \in done', Asleep(i)' # {}
        PROVE  Waiting(i)'
    <3>1. PICK d \in Callers : caller'[d] = [at |-> "asleep", of |-> i, keys |-> {}]
      BY <2>6, Zenon DEF Asleep
    <3>2. caller'[d].at = "asleep"
      BY <3>1
    <3>3. d \notin w
      BY <2>3, <3>2
    <3>4. d \in Asleep(i)
      BY <2>3, <3>1, <3>3, Zenon DEF Asleep
    <3>5. CASE i = j
      <4>1. PICK g \in Asleep(j) : w = {g}
        BY <3>4, <3>5, WokenIs, Zenon
      <4>2. g \in Callers /\ caller[g].of = j
        BY AsleepIs, Zenon
      <4>3. caller'[g].at = "wait" /\ caller'[g].of = j
        BY <2>3, <4>1, <4>2, Zenon
      <4> QED BY <3>5, <4>2, <4>3, Zenon DEF Waiting
    <3>6. CASE i # j
      <4>1. i \in done
        BY <2>2, <2>6, <3>6, Zenon
      <4>2. PICK g \in Callers : caller[g].at = "wait" /\ caller[g].of = i
        BY <2>6, <3>4, <4>1, Zenon DEF SleepersOK, Waiting
      <4>3. caller'[g].at = "wait" /\ caller'[g].of = i
        BY <2>3, <4>2, Zenon
      <4> QED BY <4>2, <4>3, Zenon DEF Waiting
    <3> QED BY <3>5, <3>6
  <2> QED BY <2>4, <2>5, <2>6, Zenon DEF SleepersOK
<1> QED BY <1>1, <1>2

\* The timer of an introduction is set until it fires, and its callback resolves it; the
\* entry that is deleted may be that of another (newPendingIntroduction, timeout, resolve).
LEMMA TimersStep ==
  ASSUME IntroductionTypes, \A i \in 1..introductions : TimersOK(i), IntroductionNext,
         NEW i \in 1..introductions'
  PROVE  TimersOK(i)'
<1>0. introductions \in Nat /\ done \subseteq 1..introductions
  BY DEF IntroductionTypes
<1>1. ASSUME NEW j \in 1..introductions, ResolvesOne(j) PROVE TimersOK(i)'
  <2>1. i \in 1..introductions /\ TimersOK(i)
    BY <1>1, Zenon DEF ResolvesOne
  <2>2. i # 0
    BY <1>0, <2>1
  <2>3. pending' # i
    BY <1>1, <2>2, Zenon DEF ResolvesOne, Resolve
  <2>4. CASE j \in done
    <3>1. UNCHANGED <<done, outcome, timers>> /\ firing \ {j} \subseteq firing'
      BY <1>1, <2>4, Zenon DEF ResolvesOne, Resolve
    <3> QED BY <2>1, <2>3, <2>4, <3>1, Zenon DEF TimersOK
  <2>5. CASE j \notin done
    <3>1. PICK result \in Results : Resolve(j, result)
      BY <1>1, Zenon DEF ResolvesOne
    <3>2. /\ timers' = timers \ {j} /\ done' = done \cup {j} /\ firing \ {j} \subseteq firing'
          /\ outcome' = [outcome EXCEPT ![j] = result]
      BY <1>1, <2>5, <3>1, Zenon DEF ResolvesOne, Resolve
    <3>3. i \in DOMAIN outcome /\ j \in DOMAIN outcome
      BY <1>0, <2>1, IntroductionAssumption DEF IntroductionTypes, Introductions
    <3>4. result # "none"
      BY DEF Results
    <3>5. (i = j => outcome'[i] # "none") /\ (i # j => outcome'[i] = outcome[i])
      BY <3>2, <3>3, <3>4, Zenon
    <3> QED BY <2>1, <2>3, <3>2, <3>5, Zenon DEF TimersOK
  <2> QED BY <2>4, <2>5
<1>2. ASSUME NEW j \in 1..introductions, TimerFires(j) PROVE TimersOK(i)'
  BY <1>2, Zenon DEF TimerFires, TimersOK
<1>3. CASE UNCHANGED <<introductions, pending, done, outcome, timers, firing>>
  BY <1>3, Zenon DEF TimersOK
<1>4. ASSUME NEW c \in Callers, RegisterIntroduction(c) PROVE TimersOK(i)'
  <2>1. CASE UNCHANGED <<introductions, pending, timers>>
    BY <1>3, <1>4, <2>1, Zenon DEF RegisterIntroduction
  <2>2. CASE /\ introductions' = introductions + 1 /\ pending' = introductions + 1
             /\ timers' = timers \cup {introductions + 1}
    <3>1. UNCHANGED <<done, outcome, firing>>
      BY <1>4, Zenon DEF RegisterIntroduction
    <3>2. introductions + 1 \notin done
      BY <1>0
    <3>3. i \in 1..introductions \/ i = introductions + 1
      BY <1>0, <2>2
    <3> QED BY <2>2, <3>1, <3>2, <3>3, Zenon DEF TimersOK
  <2> QED BY <1>4, <2>1, <2>2, Zenon DEF RegisterIntroduction
<1>5. ASSUME NEW c \in Callers, IntroduceVia(c) \/ Wait(c) \/ CallAgain(c) PROVE TimersOK(i)'
  BY <1>3, <1>5, Zenon DEF IntroduceVia, Wait, CallAgain, timerState
<1> QED BY <1>1, <1>2, <1>3, <1>4, <1>5, IntroductionActions, Zenon

\* Nobody who waits is forgotten by a step.
LEMMA CallersStep ==
  ASSUME IntroductionTypes, CallersOK, ReturnedOK, IntroductionNext
  PROVE  /\ CallersOK' /\ ReturnedOK'
         /\ \A i \in 1..introductions : SleepersOK(i) => SleepersOK(i)'
<1>1. ASSUME NEW j \in 1..introductions, TimerFires(j)
      PROVE  UNCHANGED <<introductions, done, caller>>
  BY <1>1, Zenon DEF TimerFires
<1>2. CASE UNCHANGED <<introductions, done, caller>>
  BY <1>2, Zenon DEF CallersOK, ReturnedOK, SleepersOK, Waiting, Asleep
<1>3. ASSUME NEW c \in Callers,
             RegisterIntroduction(c) \/ IntroduceVia(c) \/ Wait(c) \/ CallAgain(c)
      PROVE  Moves(c) \/ (Wait(c) /\ caller[c].of \in done)
  BY <1>3, MovesRegister, MovesOthers, Zenon
<1> QED BY <1>1, <1>2, <1>3, MovesKeep, WaitKeeps, ResolveKeeps, IntroductionActions, Zenon

\* An introduction that is made is a new one.
LEMMA NewIsNotDone ==
  ASSUME IntroductionTypes, IntroductionNext, NEW i \in 1..introductions'
  PROVE  i \in 1..introductions \/ i \notin done'
<1>1. ASSUME NEW c \in Callers, RegisterIntroduction(c) PROVE i \in 1..introductions \/ i \notin done'
  <2>1. done' = done
    BY <1>1, Zenon DEF RegisterIntroduction
  <2> QED BY <2>1, Zenon DEF IntroductionTypes
<1>2. CASE introductions' = introductions
  BY <1>2, Zenon
<1> QED BY <1>1, <1>2, IntroductionActions, Zenon
    DEF ResolvesOne, TimerFires, IntroduceVia, Wait, CallAgain

\* Whoever waits for an introduction will be woken, and none waits for one that is over
\* (registerIntroduction, wait, timeout, resolve): for every set of callers and keys and
\* any number of introductions.
THEOREM IntroductionsAreOver == IntroductionSpec => []IntroductionsEnd
<1>1. IntroductionInit => IntroductionInv
  <2>1. SUFFICES ASSUME IntroductionInit PROVE IntroductionInv
    OBVIOUS
  <2>2. 0 <= MaxIntroductions /\ 1..0 = {} /\ 0 \in 0..0
    BY IntroductionAssumption
  <2>3. IntroductionTypes
    BY <2>1, <2>2 DEF IntroductionInit, IntroductionTypes
  <2>4. CallersOK
    BY <2>1 DEF IntroductionInit, CallersOK, IdleCaller, CallerPlaces
  <2>5. ReturnedOK
    BY <2>1 DEF IntroductionInit, ReturnedOK, IdleCaller
  <2> QED BY <2>1, <2>2, <2>3, <2>4, <2>5, Zenon DEF IntroductionInv, IntroductionInit
<1>2. IntroductionInv /\ IntroductionNext => IntroductionInv'
  <2>1. SUFFICES ASSUME IntroductionInv, IntroductionNext PROVE IntroductionInv'
    OBVIOUS
  <2>2. IntroductionTypes /\ CallersOK /\ ReturnedOK
    BY <2>1, Zenon DEF IntroductionInv
  <2>3. IntroductionTypes'
    BY <2>1, <2>2, IntroductionTypesStep, Zenon
  <2>4. /\ CallersOK' /\ ReturnedOK'
        /\ \A i \in 1..introductions : SleepersOK(i) => SleepersOK(i)'
    BY <2>1, <2>2, CallersStep, Zenon
  <2>5. ASSUME NEW i \in 1..introductions' PROVE TimersOK(i)'
    BY <2>1, <2>2, TimersStep, Zenon DEF IntroductionInv
  <2>6. ASSUME NEW i \in 1..introductions' PROVE SleepersOK(i)'
    <3>1. i \in 1..introductions \/ i \notin done'
      BY <2>1, <2>2, NewIsNotDone, Zenon
    <3>2. CASE i \in 1..introductions
      BY <2>1, <2>4, <3>2, Zenon DEF IntroductionInv
    <3>3. CASE i \notin done'
      BY <3>3, Zenon DEF SleepersOK
    <3> QED BY <3>1, <3>2, <3>3
  <2> QED BY <2>3, <2>4, <2>5, <2>6, Zenon DEF IntroductionInv
<1>3. IntroductionInv /\ UNCHANGED introductionVars => IntroductionInv'
  <2>1. SUFFICES ASSUME IntroductionInv, UNCHANGED introductionVars PROVE IntroductionInv'
    OBVIOUS
  <2>2. /\ UNCHANGED <<introductions, pending, done, outcome, timers, firing>>
        /\ UNCHANGED <<caller, connect>>
    BY <2>1, Zenon DEF introductionVars, timerState
  <2>3. IntroductionTypes'
    BY <2>1, <2>2, Zenon DEF IntroductionInv, IntroductionTypes
  <2>4. CallersOK' /\ ReturnedOK'
    BY <2>1, <2>2, Zenon DEF IntroductionInv, CallersOK, ReturnedOK
  <2>5. \A i \in 1..introductions' : TimersOK(i)'
    BY <2>1, <2>2, Zenon DEF IntroductionInv, TimersOK
  <2>6. \A i \in 1..introductions' : SleepersOK(i)'
    BY <2>1, <2>2, Zenon DEF IntroductionInv, SleepersOK, Waiting, Asleep
  <2> QED BY <2>3, <2>4, <2>5, <2>6, Zenon DEF IntroductionInv
<1>4. IntroductionInv => IntroductionsEnd
  BY Zenon DEF IntroductionInv, IntroductionsEnd, TimersOK, SleepersOK, Waiting, ReturnedOK
<1> QED BY <1>1, <1>2, <1>3, <1>4, PTL DEF IntroductionSpec

\* The bridge keeps all it promises, when its packets and connections and its introductions
\* go on side by side (bridge.go, channel_peer.go, channel_connect.go).
THEOREM BridgeIsSound == BridgeSpec /\ IntroductionSpec => []BridgeHolds
<1>1. BridgedPacketsArrive /\ BridgedPipeHears /\ IntroductionsEnd => BridgeHolds
  BY Zenon DEF BridgeHolds
<1> QED BY <1>1, BridgedEndsHear, IntroductionsAreOver, PTL
=============================================================================
