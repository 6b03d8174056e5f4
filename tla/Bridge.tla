------------------------------- MODULE Bridge -------------------------------
(***************************************************************************)
(* Two endpoints that reach each other through a router (internal/modules/ *)
(* bridge): peer and connect channels that carry handshakes, the routes of *)
(* the router by token, and the bridged connections of the endpoints.      *)
(*                                                                         *)
(* The token of an endpoint is the endpoint.  The network loses, repeats   *)
(* and reorders: what was sent stays in msgs, and may be received any      *)
(* number of times.  A link is the exchange of an endpoint with the        *)
(* router, which ends, and is made again, on each side on its own.         *)
(***************************************************************************)
EXTENDS Naturals

CONSTANTS
  A, B,            \* the endpoints
  MaxBridgeConns,  \* bound: bridged connections of an endpoint
  MaxEndings       \* bound: links and bridged exchanges that end

ASSUME BridgeAssumption == A # B /\ {MaxBridgeConns, MaxEndings} \subseteq Nat

Ends == {A, B}
OtherEnd(e) == IF e = A THEN B ELSE A
HandshakeKinds == {"request", "response"}

VARIABLES
  msgs,            \* what was sent
  linkAt, linkOf,  \* is the link of an endpoint up, at the router and at the endpoint
  routes,          \* the router's packetRoutes: the tokens that have one
  connecting,      \* the handshake of a handle_connect that is to register its connection
  ended,           \* endpoints whose bridged exchange has ended; there is no next one
  lineUp,          \* endpoints whose bridged exchange has the line of the other
  hasPipe,         \* endpoints whose exchange has a pipe through the router
  pipeConn,        \* the connection of that pipe; 0: none
  connCount,       \* connections made so far
  registered,      \* the module's connections: the one of the router link; 0: none
  shutConns,       \* connections that were closed
  unregistering,   \* calls of unregisterConnection that are still to come
  late,            \* history: connections registered when they, or the link, had ended
  endings,         \* how many links and bridged exchanges have ended
  lost             \* a packet was dropped while the links were up and the exchanges lived

routerVars == <<linkAt, routes>>
connVars == <<connCount, registered, shutConns, unregistering, late>>
bridgedVars == <<linkOf, connecting, ended, lineUp, hasPipe, pipeConn>>
bridgeVars == <<msgs, routerVars, bridgedVars, connVars, endings, lost>>

Send(m) == msgs' = msgs \cup {m}

End == endings < MaxEndings /\ endings' = endings + 1
AllWell == endings = 0

-----------------------------------------------------------------------------
(* The router: handle_peer                                                 *)

RouteToken(e) == routes' = routes \cup {e}

lookupToken(e) == e \in routes

\* Mutant of HandlePeer: no route back to the requester.
HandlePeerUnrouted(e, kind) ==
  /\ [to |-> "router", from |-> e, kind |-> kind] \in msgs
  /\ linkAt[e] /\ linkAt[OtherEnd(e)]
  /\ Send([to |-> OtherEnd(e), kind |-> kind])
  /\ UNCHANGED <<linkAt, routes, bridgedVars, connVars, endings, lost>>

\* A handshake of e for the other endpoint, with which there must be an exchange: the
\* packets for the token of e are routed to e from now on, and a connect channel carries
\* the handshake on.
HandlePeer(e, kind) ==
  /\ [to |-> "router", from |-> e, kind |-> kind] \in msgs
  /\ linkAt[e] /\ linkAt[OtherEnd(e)]
  /\ RouteToken(e)
  /\ Send([to |-> OtherEnd(e), kind |-> kind])
  /\ UNCHANGED <<linkAt, bridgedVars, connVars, endings, lost>>

\* A packet that the router cannot decrypt: on_dropped_packet forwards it along the
\* route of its token.
ForwardMessage(e) ==
  /\ [to |-> "router", from |-> e, kind |-> "packet"] \in msgs
  /\ linkAt[e]
  /\ IF lookupToken(OtherEnd(e)) /\ linkAt[OtherEnd(e)]
       THEN Send([to |-> OtherEnd(e), kind |-> "packet"]) /\ UNCHANGED lost
       ELSE lost' = (lost \/ AllWell) /\ UNCHANGED msgs
  /\ UNCHANGED <<routerVars, bridgedVars, connVars, endings>>

\* The exchange of the router with e has ended: on_exchange_closed.
LinkAtRouterCloses(e) ==
  /\ linkAt[e] /\ End
  /\ linkAt' = [linkAt EXCEPT ![e] = FALSE]
  /\ routes' = routes \ {e}
  /\ UNCHANGED <<msgs, bridgedVars, connVars, lost>>

\* The two make an exchange again.
LinkAtRouterReturns(e) ==
  /\ ~linkAt[e]
  /\ linkAt' = [linkAt EXCEPT ![e] = TRUE]
  /\ UNCHANGED <<msgs, routes, bridgedVars, connVars, endings, lost>>

-----------------------------------------------------------------------------
(* The connections of an endpoint                                          *)

\* Close of what is in the set, at most one connection: its onClose is called once.
CloseCalls(closed) == IF closed = {} THEN 0 ELSE 1

\* registerConnection of connection c: the call of Close for the one before follows.
RegisterConnection(e, c) ==
  /\ registered' = [registered EXCEPT ![e] = c]
  /\ late' = IF linkOf[e] /\ c \notin shutConns[e] THEN late ELSE [late EXCEPT ![e] = @ \cup {c}]
  /\ LET prev == {registered[e]} \ ({0} \cup shutConns[e])
     IN  /\ shutConns' = [shutConns EXCEPT ![e] = @ \cup prev]
         /\ unregistering' = [unregistering EXCEPT ![e] = @ + CloseCalls(prev)]

\* peerAddr.Dial, when the pipe of e writes and has no connection.
Dial(e) ==
  /\ hasPipe[e] /\ ~ended[e] /\ pipeConn[e] = 0 /\ linkOf[e] /\ connCount[e] < MaxBridgeConns
  /\ connCount' = [connCount EXCEPT ![e] = @ + 1]
  /\ pipeConn' = [pipeConn EXCEPT ![e] = connCount'[e]]
  /\ RegisterConnection(e, connCount'[e])
  /\ UNCHANGED <<msgs, routerVars, linkOf, connecting, ended, lineUp, hasPipe, endings, lost>>

Usable(e) == pipeConn[e] # 0 /\ pipeConn[e] \notin shutConns[e]

\* connection.Write of a handshake, through a peer channel.
WriteHandshake(e) ==
  /\ Usable(e) /\ linkOf[e]
  /\ Send([to |-> "router", from |-> e, kind |-> "request"])
  /\ UNCHANGED <<routerVars, bridgedVars, connVars, endings, lost>>

\* connection.Write of a packet, through the pipe of the link.
WriteBridgedPacket(e) ==
  /\ Usable(e) /\ lineUp[e] /\ linkOf[e]
  /\ Send([to |-> "router", from |-> e, kind |-> "packet"])
  /\ UNCHANGED <<routerVars, bridgedVars, connVars, endings, lost>>

\* The bridged exchange of e ends, and closes its pipe.
BridgedExpires(e) ==
  /\ hasPipe[e] /\ ~ended[e] /\ End
  /\ ended' = [ended EXCEPT ![e] = TRUE]
  /\ LET now == {pipeConn[e]} \ ({0} \cup shutConns[e])
     IN  /\ shutConns' = [shutConns EXCEPT ![e] = @ \cup now]
         /\ unregistering' = [unregistering EXCEPT ![e] = @ + CloseCalls(now)]
  /\ UNCHANGED <<msgs, routerVars, linkOf, connecting, lineUp, hasPipe, pipeConn, connCount,
                 registered, late, lost>>

\* onClose: unregisterConnection removes and closes what is registered, whichever
\* connection that is now.
UnregisterConnection(e) ==
  /\ unregistering[e] > 0
  /\ registered' = [registered EXCEPT ![e] = 0]
  /\ LET now == {registered[e]} \ ({0} \cup shutConns[e])
     IN  /\ shutConns' = [shutConns EXCEPT ![e] = @ \cup now]
         /\ unregistering' = [unregistering EXCEPT ![e] = @ - 1 + CloseCalls(now)]
  /\ UNCHANGED <<msgs, routerVars, bridgedVars, connCount, endings, late, lost>>

\* The reader of the pipe ends, as its connection is closed.
ReaderEnds(e) ==
  /\ pipeConn[e] \in shutConns[e]
  /\ pipeConn' = [pipeConn EXCEPT ![e] = 0]
  /\ UNCHANGED <<msgs, routerVars, linkOf, connecting, ended, lineUp, hasPipe, connVars, endings, lost>>

\* The exchange of e with the router has ended: on_exchange_closed.
LinkOfEndCloses(e) ==
  /\ linkOf[e] /\ End
  /\ linkOf' = [linkOf EXCEPT ![e] = FALSE]
  /\ registered' = [registered EXCEPT ![e] = 0]
  /\ LET now == {registered[e]} \ ({0} \cup shutConns[e])
     IN  /\ shutConns' = [shutConns EXCEPT ![e] = @ \cup now]
         /\ unregistering' = [unregistering EXCEPT ![e] = @ + CloseCalls(now)]
  /\ UNCHANGED <<msgs, routerVars, connecting, ended, lineUp, hasPipe, pipeConn, connCount, late, lost>>

\* A new exchange with the router: the calls of unregisterConnection for the one before
\* find nothing any more.  A registration that is under way is waited for (a bound).
LinkOfEndReturns(e) ==
  /\ ~linkOf[e] /\ connecting[e] = "no"
  /\ linkOf' = [linkOf EXCEPT ![e] = TRUE]
  /\ registered' = [registered EXCEPT ![e] = 0]
  /\ unregistering' = [unregistering EXCEPT ![e] = 0]
  /\ UNCHANGED <<msgs, routerVars, connecting, ended, lineUp, hasPipe, pipeConn, connCount,
                 shutConns, endings, late, lost>>

lookupConnection(e) == registered[e]

\* A packet of the link that e cannot decrypt goes to the bridged connection.  It is lost
\* if the exchange could take it and there is no connection, nor one being registered.
ReceivedForwarded(e) ==
  /\ [to |-> e, kind |-> "packet"] \in msgs /\ linkOf[e]
  /\ lost' = (lost \/ (AllWell /\ lineUp[e] /\ lookupConnection(e) = 0 /\ connecting[e] = "no"))
  /\ UNCHANGED <<msgs, routerVars, bridgedVars, connVars, endings>>

-----------------------------------------------------------------------------
(* handle_connect                                                          *)

\* ApplyHandshake; a request is answered by peerVia, through the router.
Apply(e, kind) ==
  /\ lineUp' = [lineUp EXCEPT ![e] = TRUE]
  /\ IF kind = "request" /\ linkOf[e]
       THEN Send([to |-> "router", from |-> e, kind |-> "response"])
       ELSE UNCHANGED msgs

\* AddPipeConnection finds the pipe.
HandleConnect(e, kind) ==
  /\ [to |-> e, kind |-> kind] \in msgs /\ linkOf[e] /\ ~ended[e] /\ hasPipe[e]
  /\ Apply(e, kind)
  /\ UNCHANGED <<routerVars, linkOf, connecting, ended, hasPipe, pipeConn, connVars, endings, lost>>

\* AddPipeConnection adds a pipe with a new connection, which is then to be registered.
HandleFirstConnect(e, kind) ==
  /\ [to |-> e, kind |-> kind] \in msgs /\ linkOf[e] /\ ~ended[e] /\ ~hasPipe[e]
  /\ hasPipe' = [hasPipe EXCEPT ![e] = TRUE]
  /\ connCount' = [connCount EXCEPT ![e] = @ + 1]
  /\ pipeConn' = [pipeConn EXCEPT ![e] = connCount'[e]]
  /\ connecting' = [connecting EXCEPT ![e] = kind]
  /\ UNCHANGED <<msgs, routerVars, linkOf, ended, lineUp, registered, shutConns,
                 unregistering, endings, late, lost>>

\* Mutant of ConnectRegisters: the new connection is not registered.
ConnectRegistersNot(e) ==
  /\ connecting[e] # "no"
  /\ Apply(e, connecting[e])
  /\ connecting' = [connecting EXCEPT ![e] = "no"]
  /\ UNCHANGED <<routerVars, linkOf, ended, hasPipe, pipeConn, connVars, endings, lost>>

ConnectRegisters(e) ==
  /\ connecting[e] # "no"
  /\ RegisterConnection(e, 1)
  /\ Apply(e, connecting[e])
  /\ connecting' = [connecting EXCEPT ![e] = "no"]
  /\ UNCHANGED <<routerVars, linkOf, ended, hasPipe, pipeConn, connCount, endings, lost>>

-----------------------------------------------------------------------------
\* A dials B: it has the address of the router for B.
BridgeInit ==
  /\ msgs = {} /\ endings = 0 /\ routes = {} /\ lost = FALSE
  /\ linkAt = [e \in Ends |-> TRUE] /\ linkOf = [e \in Ends |-> TRUE]
  /\ connecting = [e \in Ends |-> "no"]
  /\ ended = [e \in Ends |-> FALSE] /\ lineUp = [e \in Ends |-> FALSE]
  /\ hasPipe = [e \in Ends |-> e = A]
  /\ pipeConn = [e \in Ends |-> 0] /\ connCount = [e \in Ends |-> 0]
  /\ registered = [e \in Ends |-> 0] /\ shutConns = [e \in Ends |-> {}]
  /\ unregistering = [e \in Ends |-> 0] /\ late = [e \in Ends |-> {}]

BridgeNext ==
  \/ \E e \in Ends, kind \in HandshakeKinds : 
       HandlePeer(e, kind) \/ HandleConnect(e, kind) \/ HandleFirstConnect(e, kind)
  \/ \E e \in Ends :
       \/ ForwardMessage(e) \/ ReceivedForwarded(e)
       \/ LinkAtRouterCloses(e) \/ LinkAtRouterReturns(e)
       \/ LinkOfEndCloses(e) \/ LinkOfEndReturns(e)
       \/ Dial(e) \/ WriteHandshake(e) \/ WriteBridgedPacket(e)
       \/ BridgedExpires(e) \/ UnregisterConnection(e) \/ ReaderEnds(e)
       \/ ConnectRegisters(e)

BridgeSpec == BridgeInit /\ [][BridgeNext]_bridgeVars

-----------------------------------------------------------------------------
(* Properties.                                                             *)

\* As long as the links are up and the bridged exchanges live, no packet is lost on the
\* way, however handshakes and packets overtake each other: the router has the route
\* before the handshake goes on, and the receiver registers its connection before it
\* applies the handshake that lets it be written to.
BridgedPacketsArrive == ~lost

\* The connection of a pipe is registered, or is about to be, or is closed, so that the
\* pipe dials again: an exchange does not wait for packets on a connection that gets
\* none.  And a connection that was closed does not stay registered, where it would
\* swallow the packets of the next one: its unregisterConnection is still to come.  The
\* exception to both is a connection that handle_connect registers when its exchange, or
\* the one with the router, has just ended: nothing closes or removes it.
BridgedPipeHears ==
  \A e \in Ends :
    /\ Usable(e) => registered[e] = pipeConn[e] \/ connecting[e] # "no" \/ pipeConn[e] \in late[e]
    /\ registered[e] \in shutConns[e] \ late[e] => unregistering[e] > 0
-----------------------------------------------------------------------------
(***************************************************************************)
(* Introductions through a router (internal/modules/bridge: bridge.go,     *)
(* pendingIntroduction; channel_peer.go, introduceVia).  Callers that want *)
(* an exchange with one peer share an introduction: the first sends the    *)
(* keys of the endpoint to the peer, all wait, and the connect channel     *)
(* that the peer's handshake arrives on, or the timer, resolves it.        *)
(*                                                                         *)
(* mod.pending has one entry, that of the peer.  Introductions are         *)
(* numbered as they are made.  Nothing in the repository calls             *)
(* registerIntroduction; a caller here does what its result is for.        *)
(***************************************************************************)

CONSTANTS
  Callers,           \* goroutines that ask for the peer
  Connects,          \* goroutines in handle_connect, with an exchange of the peer
  KeyIds,            \* cipher sets of the endpoint's keys
  MaxIntroductions   \* bound: introductions made

ASSUME IntroductionAssumption == MaxIntroductions \in Nat

VARIABLES
  introductions,   \* introductions made so far
  pending,   \* mod.pending of the peer; 0: none
  done,      \* introductions that are resolved
  outcome,   \* of each: the exchange, or the error
  timers,     \* introductions whose timer is set
  firing,    \* introductions whose timer has fired: the callback is still to come
  caller,    \* of each caller: its place, its introduction, the keys it has still to send
  connect,   \* of each handle_connect: its place, and the introduction it has found
  sent       \* key packets that were given to the router

timerState == <<timers, firing>>
introductionVars == <<introductions, pending, done, outcome, timerState, caller, connect, sent>>

IdleCaller == [at |-> "idle", of |-> 0, keys |-> {}]

-----------------------------------------------------------------------------
(* The callers                                                             *)

\* The one that makes the introduction is told to dial.
RegisterIntroduction(c) ==
  /\ caller[c] = IdleCaller
  /\ \/ /\ pending # 0
        /\ caller' = [caller EXCEPT ![c] = [at |-> "wait", of |-> pending, keys |-> {}]]
        /\ UNCHANGED <<introductions, pending, timers>>
     \/ /\ pending = 0 /\ introductions < MaxIntroductions
        /\ introductions' = introductions + 1 /\ pending' = introductions + 1
        /\ timers' = timers \cup {introductions + 1}
        /\ caller' = [caller EXCEPT ![c] = [at |-> "dial", of |-> introductions + 1, keys |-> KeyIds]]
  /\ UNCHANGED <<done, outcome, firing, connect, sent>>

\* A key packet goes to the router on a peer channel of its own.
PeerVia(i, csid) == sent' = sent \cup {[for |-> i, csid |-> csid]}

\* A packet per key, in the order of the map; an error ends the loop, and the caller
\* waits for the peer or the timer.
IntroduceVia(c) ==
  /\ caller[c].at = "dial"
  /\ \/ \E csid \in caller[c].keys :
          /\ PeerVia(caller[c].of, csid)
          /\ caller' = [caller EXCEPT ![c].keys = @ \ {csid}]
     \/ caller' = [caller EXCEPT ![c].at = "wait", ![c].keys = {}] /\ UNCHANGED sent
  /\ UNCHANGED <<introductions, pending, done, outcome, timerState, connect>>

Asleep(i) == {c \in Callers : caller[c] = [at |-> "asleep", of |-> i, keys |-> {}]}

\* cnd.Signal: one of those that sleep, if there is one, goes on.
Woken(i) == IF Asleep(i) = {} THEN {{}} ELSE {{c} : c \in Asleep(i)}

Awakened(f, w) == [c \in Callers |-> IF c \in w THEN [f[c] EXCEPT !.at = "wait"] ELSE f[c]]

\* Mutant of Wait: a caller that returns does not wake the next.
WaitAlone(c) ==
  LET i == caller[c].of
  IN /\ caller[c].at = "wait"
     /\ caller' = [caller EXCEPT ![c] =
                     IF i \in done THEN [@ EXCEPT !.at = "returned"] ELSE [@ EXCEPT !.at = "asleep"]]
     /\ UNCHANGED <<introductions, pending, done, outcome, timerState, connect, sent>>

\* The caller that returns wakes the next one.
Wait(c) ==
  LET i == caller[c].of
  IN /\ caller[c].at = "wait"
     /\ \/ i \notin done /\ caller' = [caller EXCEPT ![c].at = "asleep"]
        \/ i \in done /\ \E w \in Woken(i) :
             caller' = Awakened([caller EXCEPT ![c].at = "returned"], w)
     /\ UNCHANGED <<introductions, pending, done, outcome, timerState, connect, sent>>

CallAgain(c) ==
  /\ caller[c].at = "returned"
  /\ caller' = [caller EXCEPT ![c] = IdleCaller]
  /\ UNCHANGED <<introductions, pending, done, outcome, timerState, connect, sent>>

-----------------------------------------------------------------------------
(* Who resolves it                                                         *)

\* With both locks held.  The entry of the peer is deleted, whichever it is.
Resolve(i, result) ==
  /\ pending' = 0
  /\ IF i \in done THEN UNCHANGED <<done, outcome, timers, caller>>
     ELSE /\ timers' = timers \ {i}
          /\ outcome' = [outcome EXCEPT ![i] = result]
          /\ done' = done \cup {i}
          /\ \E w \in Woken(i) : caller' = Awakened(caller, w)

\* A timer that has fired is not stopped any more: its callback runs when it gets the
\* locks, and may find the introduction resolved.
TimerFires(i) ==
  /\ i \in timers
  /\ timers' = timers \ {i} /\ firing' = firing \cup {i}
  /\ UNCHANGED <<introductions, pending, done, outcome, caller, connect, sent>>

Timeout(i) ==
  /\ i \in firing
  /\ firing' = firing \ {i}
  /\ Resolve(i, "timeout")
  /\ UNCHANGED <<introductions, connect, sent>>

\* handle_connect looks for the introduction, and resolves what it has found; a nil one
\* resolves to nothing.
GetIntroduction(h) ==
  /\ connect[h] = [at |-> "idle", of |-> 0]
  /\ connect' = [connect EXCEPT ![h] = [at |-> "resolve", of |-> pending]]
  /\ UNCHANGED <<introductions, pending, done, outcome, timerState, caller, sent>>

ConnectResolves(h) ==
  /\ connect[h].at = "resolve"
  /\ connect' = [connect EXCEPT ![h] = [at |-> "idle", of |-> 0]]
  /\ IF connect[h].of = 0 THEN UNCHANGED <<pending, done, outcome, timers, caller>>
     ELSE Resolve(connect[h].of, "exchange")
  /\ UNCHANGED <<introductions, firing, sent>>

-----------------------------------------------------------------------------
Introductions == 1..MaxIntroductions

IntroductionInit ==
  /\ introductions = 0 /\ pending = 0 /\ done = {} /\ timers = {} /\ firing = {} /\ sent = {}
  /\ outcome = [i \in Introductions |-> "none"]
  /\ caller = [c \in Callers |-> IdleCaller]
  /\ connect = [h \in Connects |-> [at |-> "idle", of |-> 0]]

IntroductionNext ==
  \/ \E c \in Callers : RegisterIntroduction(c) \/ IntroduceVia(c) \/ Wait(c) \/ CallAgain(c)
  \/ \E i \in Introductions : TimerFires(i) \/ Timeout(i)
  \/ \E h \in Connects : GetIntroduction(h) \/ ConnectResolves(h)

IntroductionSpec == IntroductionInit /\ [][IntroductionNext]_introductionVars

-----------------------------------------------------------------------------
(* Properties.                                                             *)

\* Whoever waits for an introduction will return: while it is not resolved its timer is
\* set, or the callback is on its way, even after another introduction has deleted its
\* entry; once it is resolved a caller that sleeps is woken by one that is on its way
\* out.  No caller joins an introduction that is over (registerIntroduction, wait,
\* timeout, resolve).
IntroductionsEnd ==
  /\ \A i \in 1..introductions :
       /\ i \notin done => i \in timers \cup firing
       /\ i \in done => i \notin timers /\ pending # i /\ outcome[i] # "none"
       /\ i \in done /\ Asleep(i) # {} => \E c \in Callers : caller[c].at = "wait" /\ caller[c].of = i
  /\ \A c \in Callers : caller[c].at = "returned" => caller[c].of \in done

\* A working bridge loses no packet, and the connection of a bridged pipe is registered as
\* long as it is open, and no longer (bridge.go, channel_connect.go, channel_peer.go); who
\* waits for an introduction returns (bridge.go, wait, resolve).
BridgeHolds == BridgedPacketsArrive /\ BridgedPipeHears /\ IntroductionsEnd
=============================================================================
