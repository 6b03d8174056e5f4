------------------------------ MODULE Endpoint ------------------------------
(***************************************************************************)
(* The registry of an endpoint (e3x/endpoint.go): the exchanges by         *)
(* hashname and by token, CreateExchange, the handshakes that accept takes *)
(* in, and the removal of an exchange that has ended.                      *)
(*                                                                         *)
(* Exchanges are numbered as they are made; the local token of exchange x  *)
(* is x.  A remote token is a line of a peer: a peer that restarts has a   *)
(* new line, with later handshakes.  accept looks up the token under one   *)
(* Lock and the hashname under a second one.                               *)
(***************************************************************************)
EXTENDS Naturals

CONSTANTS
  Peers,          \* hashnames of peers
  MaxExchanges,   \* bound: exchanges made
  MaxLines        \* bound: lines of a peer

Exchanges == 1..MaxExchanges
Lines == 1..MaxLines

VARIABLES
  count,          \* exchanges made so far
  hashnames,      \* e.hashnames: peer -> exchange; 0: none
  localTokens,    \* e.tokens, local tokens -> exchange; 0: none
  remoteTokens,   \* e.tokens, line of a peer -> exchange; 0: none
  peerOf, status, \* of each exchange: its peer; "unmade", "live", "ended" or "gone"
  lineOf,         \* of each exchange: the line of its peer; 0: none yet
  line,           \* the line that each peer uses now
  acceptor        \* where accept is, with its handshake and the exchange it found

tokens == <<hashnames, localTokens, remoteTokens>>
exchangeVars == <<count, peerOf, status, lineOf>>
registryVars == <<tokens, exchangeVars, line, acceptor>>

Idle == [at |-> "idle"]

-----------------------------------------------------------------------------
(* The exchange                                                            *)

\* The line of x after a handshake of line n, in any state of x: an older one is dropped,
\* as the handshakes of a new line have later sequence numbers (see Handshake; a peer that
\* restarts within the second in which it last made a handshake is not considered here).
Applied(x, n) == IF n >= lineOf[x] THEN n ELSE lineOf[x]

Make(p, n) ==
  /\ count < MaxExchanges
  /\ count' = count + 1
  /\ peerOf' = [peerOf EXCEPT ![count'] = p]
  /\ status' = [status EXCEPT ![count'] = "live"]
  /\ lineOf' = [lineOf EXCEPT ![count'] = n]
  /\ hashnames' = [hashnames EXCEPT ![p] = count']
  /\ localTokens' = [localTokens EXCEPT ![count'] = count']

\* Mutant of CreateExchange: an exchange of the peer is not looked for.
CreateExchangeAnyway(p) ==
  /\ Make(p, 0)
  /\ UNCHANGED <<remoteTokens, line, acceptor>>

\* The step of CreateExchange that makes one; an exchange of the peer is returned as it
\* is, even one that has ended.
CreateExchange(p) ==
  /\ hashnames[p] = 0
  /\ Make(p, 0)
  /\ UNCHANGED <<remoteTokens, line, acceptor>>

\* A handshake through a pipe of the exchange: the tokens are not brought up to date.
\* A live exchange has pipes; expire closes them before it calls the hooks.
PipeHandshake(x, n) ==
  /\ status[x] \in {"live", "ended"} /\ n <= line[peerOf[x]]
  /\ lineOf' = [lineOf EXCEPT ![x] = Applied(x, n)]
  /\ UNCHANGED <<tokens, count, peerOf, status, line, acceptor>>

\* expire, up to the hooks.
Expire(x) ==
  /\ status[x] = "live"
  /\ status' = [status EXCEPT ![x] = "ended"]
  /\ UNCHANGED <<tokens, count, peerOf, lineOf, line, acceptor>>

Restart(p) ==
  /\ line[p] < MaxLines
  /\ line' = [line EXCEPT ![p] = @ + 1]
  /\ UNCHANGED <<tokens, exchangeVars, acceptor>>

-----------------------------------------------------------------------------
(* accept                                                                  *)

\* A connection brings a handshake of peer p, maybe a late one: the first look.
AcceptToken(p, n) ==
  /\ acceptor = Idle /\ n <= line[p]
  /\ acceptor' = IF remoteTokens[p][n] # 0
                   THEN [at |-> "found", exchange |-> remoteTokens[p][n], n |-> n]
                   ELSE [at |-> "handshake", p |-> p, n |-> n]
  /\ UNCHANGED <<tokens, exchangeVars, line>>

\* The exchange that was found receives the handshake, without the lock.
AcceptFound ==
  /\ acceptor.at = "found"
  /\ lineOf' = [lineOf EXCEPT ![acceptor.exchange] =
                      Applied(acceptor.exchange, acceptor.n)]
  /\ acceptor' = Idle
  /\ UNCHANGED <<tokens, count, peerOf, status, line>>

\* The second look finds an exchange, which receives the handshake under the lock; the
\* tokens follow a line that changed.
AcceptKnown ==
  /\ acceptor.at = "handshake" /\ hashnames[acceptor.p] # 0
  /\ LET x == hashnames[acceptor.p]
         old == lineOf[x]
         new == Applied(x, acceptor.n)
     IN  /\ lineOf' = [lineOf EXCEPT ![x] = new]
         /\ remoteTokens' = IF old = new THEN remoteTokens
              ELSE [remoteTokens EXCEPT ![acceptor.p] =
                     [n \in Lines |-> IF n = old THEN 0 ELSE IF n = new THEN x ELSE @[n]]]
  /\ acceptor' = Idle
  /\ UNCHANGED <<hashnames, localTokens, count, peerOf, status, line>>

\* The second look finds none: the handshake makes an exchange.
AcceptNew ==
  /\ acceptor.at = "handshake" /\ hashnames[acceptor.p] = 0
  /\ Make(acceptor.p, acceptor.n)
  /\ remoteTokens' = [remoteTokens EXCEPT ![acceptor.p][acceptor.n] = count']
  /\ acceptor' = Idle
  /\ UNCHANGED line

-----------------------------------------------------------------------------
(* onExchangeClosed                                                        *)

\* Mutant of ExchangeClosed: the remote token is left.
ExchangeClosedLeavesRemote(x) ==
  /\ status[x] = "ended"
  /\ status' = [status EXCEPT ![x] = "gone"]
  /\ hashnames' = [hashnames EXCEPT ![peerOf[x]] = 0]
  /\ localTokens' = [localTokens EXCEPT ![x] = 0]
  /\ UNCHANGED <<remoteTokens, count, peerOf, lineOf, line, acceptor>>

\* The entries are removed by their keys, whatever exchange they lead to.
ExchangeClosed(x) ==
  /\ status[x] = "ended"
  /\ status' = [status EXCEPT ![x] = "gone"]
  /\ hashnames' = [hashnames EXCEPT ![peerOf[x]] = 0]
  /\ localTokens' = [localTokens EXCEPT ![x] = 0]
  /\ remoteTokens' = [remoteTokens EXCEPT ![peerOf[x]] =
                       [n \in Lines |-> IF n = lineOf[x] THEN 0 ELSE @[n]]]
  /\ UNCHANGED <<count, peerOf, lineOf, line, acceptor>>

-----------------------------------------------------------------------------
RegistryInit ==
  /\ count = 0 /\ hashnames = [p \in Peers |-> 0]
  /\ localTokens = [x \in Exchanges |-> 0]
  /\ remoteTokens = [p \in Peers |-> [n \in Lines |-> 0]]
  /\ peerOf = [x \in Exchanges |-> CHOOSE p \in Peers : TRUE]
  /\ status = [x \in Exchanges |-> "unmade"]
  /\ lineOf = [x \in Exchanges |-> 0]
  /\ line = [p \in Peers |-> 1] /\ acceptor = Idle

RegistryNext ==
  \/ \E p \in Peers : CreateExchange(p) \/ Restart(p)
  \/ \E x \in Exchanges : Expire(x) \/ ExchangeClosed(x)
  \/ \E x \in Exchanges, n \in Lines : PipeHandshake(x, n)
  \/ \E p \in Peers, n \in Lines : AcceptToken(p, n)
  \/ AcceptFound \/ AcceptKnown \/ AcceptNew

-----------------------------------------------------------------------------
(* Properties.                                                             *)

\* A peer has one exchange, from the moment it is made to the moment it has been
\* closed: CreateExchange and accept race for the peer, and an exchange is not removed
\* by the end of an earlier one.
OneExchangePerPeer ==
  \A x \in Exchanges : status[x] \in {"live", "ended"} => hashnames[peerOf[x]] = x

\* The token that an endpoint gave its peer for an exchange leads to that exchange as
\* long as it is registered, and to nothing afterwards.  A remote token leads to an
\* exchange of the peer whose line it is; and one that still leads to an exchange that
\* is gone is of a line that the peer had left before, so a peer that lost its exchange
\* is not sent back to it by the line it uses.
TokensAreCurrent ==
  /\ \A x \in Exchanges :
       localTokens[x] = IF status[x] \in {"live", "ended"} THEN x ELSE 0
  /\ \A p \in Peers, n \in Lines :
       LET x == remoteTokens[p][n]
       IN  x # 0 => peerOf[x] = p /\ (status[x] = "gone" => n < lineOf[x])

\* What the endpoint finds by hashname and by token is what is there, whatever
\* CreateExchange, accept, handshakes through pipes and ends of exchanges do in between.
RegistryIsCurrent == OneExchangePerPeer /\ TokensAreCurrent
=============================================================================
