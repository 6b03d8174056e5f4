--------------------------- MODULE EndpointProofs ---------------------------
(***************************************************************************)
(* The registry of an endpoint for every set of peers and every number of  *)
(* exchanges and lines; that nobody sends on cAccept once Close has closed *)
(* it, for every set of joined transports and every number of connections; *)
(* what an Open that fails leaves, for every program and set of modules;   *)
(* and the connections of a pipe, for every set of writers and closers.    *)
(***************************************************************************)
EXTENDS Endpoint, EndpointClose, Startup, Pipe, FiniteSetTheorems, TLAPS

-----------------------------------------------------------------------------
(* The registry                                                            *)

Sizes == MaxExchanges \in Nat /\ MaxLines \in Nat \ {0}

Accepting ==
  \/ acceptor = Idle
  \/ acceptor \in [at : {"found"}, exchange : Exchanges, n : Lines]
  \/ acceptor \in [at : {"handshake"}, p : Peers, n : Lines]

TypeOK ==
  /\ count \in 0..MaxExchanges
  /\ hashnames \in [Peers -> 0..MaxExchanges]
  /\ localTokens \in [Exchanges -> 0..MaxExchanges]
  /\ remoteTokens \in [Peers -> [Lines -> 0..MaxExchanges]]
  /\ peerOf \in [Exchanges -> Peers]
  /\ status \in [Exchanges -> {"unmade", "live", "ended", "gone"}]
  /\ lineOf \in [Exchanges -> 0..MaxLines]
  /\ line \in [Peers -> Lines]
  /\ Accepting

Registering == {"live", "ended"}

(* Exchanges that are not made yet are nowhere, a hashname leads to an      *)
(* exchange of its peer that has not been closed, and a remote token of an  *)
(* exchange is of the line of the exchange or of one before it: that is why *)
(* removing the token of the last line is enough when the exchange ends.    *)
Counted == \A x \in Exchanges : status[x] = "unmade" <=> x > count
NamesLead == \A p \in Peers : hashnames[p] # 0 =>
  status[hashnames[p]] \in Registering /\ peerOf[hashnames[p]] = p
LinesLead == \A p \in Peers, n \in Lines : remoteTokens[p][n] # 0 =>
  remoteTokens[p][n] <= count /\ n <= lineOf[remoteTokens[p][n]]
LocalsLead == \A x \in Exchanges :
  localTokens[x] = IF status[x] \in Registering THEN x ELSE 0
RemotesLead == \A p \in Peers, n \in Lines : remoteTokens[p][n] # 0 =>
  /\ peerOf[remoteTokens[p][n]] = p
  /\ status[remoteTokens[p][n]] = "gone" => n < lineOf[remoteTokens[p][n]]

RegistryInv ==
  /\ TypeOK /\ Counted /\ NamesLead /\ LinesLead
  /\ OneExchangePerPeer /\ LocalsLead /\ RemotesLead

-----------------------------------------------------------------------------
\* The registry starts empty.
LEMMA InitRegistry ==
  ASSUME Sizes, Peers # {}, RegistryInit
  PROVE  RegistryInv
<1>1. (CHOOSE p \in Peers : TRUE) \in Peers
  BY Zenon
<1>2. TypeOK
  <2>1. 0 \in 0..MaxExchanges /\ 0 \in 0..MaxLines /\ 1 \in Lines
    BY DEF Sizes, Lines
  <2>2. /\ hashnames \in [Peers -> 0..MaxExchanges]
        /\ localTokens \in [Exchanges -> 0..MaxExchanges]
        /\ remoteTokens \in [Peers -> [Lines -> 0..MaxExchanges]]
        /\ lineOf \in [Exchanges -> 0..MaxLines] /\ line \in [Peers -> Lines]
    BY <2>1, Zenon DEF RegistryInit
  <2>3. /\ peerOf \in [Exchanges -> Peers]
        /\ status \in [Exchanges -> {"unmade", "live", "ended", "gone"}]
    BY <1>1, Zenon DEF RegistryInit
  <2> QED
    BY <2>1, <2>2, <2>3, Zenon DEF RegistryInit, TypeOK, Accepting
<1>3. /\ Counted /\ NamesLead /\ LinesLead
      /\ OneExchangePerPeer /\ LocalsLead /\ RemotesLead
  BY DEF RegistryInit, Counted, NamesLead, LinesLead, OneExchangePerPeer, LocalsLead, RemotesLead,
         Registering, Sizes, Exchanges
<1> QED
  BY <1>2, <1>3, Zenon DEF RegistryInv

\* The two parts of TokensAreCurrent.
LEMMA InvIsCurrent == RegistryInv => RegistryIsCurrent
BY Zenon DEF RegistryInv, RegistryIsCurrent, TokensAreCurrent, LocalsLead, RemotesLead, Registering

\* A new exchange for a peer that has none.  The remote tokens are its maker's business.
LEMMA MakeRegistry ==
  ASSUME Sizes, RegistryInv, NEW p \in Peers, NEW n \in 0..MaxLines, hashnames[p] = 0,
         Make(p, n)
  PROVE  /\ count' = count + 1 /\ count' \in 0..MaxExchanges /\ count \in Nat
         /\ hashnames' \in [Peers -> 0..MaxExchanges]
         /\ localTokens' \in [Exchanges -> 0..MaxExchanges]
         /\ peerOf' \in [Exchanges -> Peers]
         /\ status' \in [Exchanges -> {"unmade", "live", "ended", "gone"}]
         /\ lineOf' \in [Exchanges -> 0..MaxLines]
         /\ Counted' /\ NamesLead' /\ OneExchangePerPeer' /\ LocalsLead'
         /\ peerOf'[count'] = p /\ status'[count'] = "live" /\ lineOf'[count'] = n
         /\ \A x \in Exchanges : x <= count =>
              peerOf'[x] = peerOf[x] /\ status'[x] = status[x] /\ lineOf'[x] = lineOf[x]
<1>1. /\ count' = count + 1 /\ count' \in Exchanges /\ count \in Nat
      /\ count' \in 0..MaxExchanges /\ count' # 0
  BY DEF Make, Sizes, RegistryInv, TypeOK, Exchanges
<1>2. /\ hashnames' = [hashnames EXCEPT ![p] = count']
      /\ localTokens' = [localTokens EXCEPT ![count'] = count']
      /\ peerOf' = [peerOf EXCEPT ![count'] = p]
      /\ status' = [status EXCEPT ![count'] = "live"]
      /\ lineOf' = [lineOf EXCEPT ![count'] = n]
  BY Zenon DEF Make
<1>3. /\ hashnames' \in [Peers -> 0..MaxExchanges]
      /\ localTokens' \in [Exchanges -> 0..MaxExchanges]
      /\ peerOf' \in [Exchanges -> Peers]
      /\ status' \in [Exchanges -> {"unmade", "live", "ended", "gone"}]
      /\ lineOf' \in [Exchanges -> 0..MaxLines]
  <2>1. /\ hashnames' \in [Peers -> 0..MaxExchanges]
        /\ localTokens' \in [Exchanges -> 0..MaxExchanges]
    BY <1>1, <1>2, Zenon DEF RegistryInv, TypeOK
  <2>2. /\ peerOf' \in [Exchanges -> Peers] /\ lineOf' \in [Exchanges -> 0..MaxLines]
    BY <1>2, Zenon DEF RegistryInv, TypeOK
  <2>3. status' \in [Exchanges -> {"unmade", "live", "ended", "gone"}]
    BY <1>2, Zenon DEF RegistryInv, TypeOK
  <2> QED
    BY <2>1, <2>2, <2>3, Zenon
<1>4. /\ peerOf'[count'] = p /\ status'[count'] = "live" /\ lineOf'[count'] = n
      /\ localTokens'[count'] = count' /\ hashnames'[p] = count'
  BY <1>1, <1>2, Zenon DEF RegistryInv, TypeOK
<1>5. \A x \in Exchanges : x # count' =>
        /\ peerOf'[x] = peerOf[x] /\ status'[x] = status[x] /\ lineOf'[x] = lineOf[x]
        /\ localTokens'[x] = localTokens[x]
  BY <1>2, Zenon DEF RegistryInv, TypeOK
<1>6. \A q \in Peers : q # p => hashnames'[q] = hashnames[q]
  BY <1>2, Zenon DEF RegistryInv, TypeOK
<1>7. Counted'
  BY <1>1, <1>4, <1>5 DEF Counted, RegistryInv, Exchanges
<1>8. status[count'] = "unmade"
  BY <1>1 DEF Counted, RegistryInv
<1>9. ASSUME NEW q \in Peers, hashnames'[q] # 0
      PROVE  status'[hashnames'[q]] \in Registering /\ peerOf'[hashnames'[q]] = q
  <2>1. CASE q = p
    BY <1>4, <2>1, Zenon DEF Registering
  <2>2. CASE q # p
    <3>1. hashnames'[q] = hashnames[q] /\ hashnames[q] # 0
      BY <1>6, <1>9, <2>2, Zenon
    <3>2. status[hashnames[q]] \in Registering /\ peerOf[hashnames[q]] = q
      BY <3>1, Zenon DEF RegistryInv, NamesLead
    <3>3. hashnames[q] \in Exchanges
      BY <3>1 DEF RegistryInv, TypeOK, Exchanges, Sizes
    <3>4. hashnames[q] # count'
      BY <1>8, <3>2, Zenon DEF Registering
    <3> QED
      BY <1>5, <3>1, <3>2, <3>3, <3>4, Zenon
  <2> QED
    BY <2>1, <2>2, Zenon
<1>10. ASSUME NEW x \in Exchanges, status'[x] \in {"live", "ended"}
       PROVE  hashnames'[peerOf'[x]] = x
  <2>1. CASE x = count'
    BY <1>4, <2>1, Zenon
  <2>2. CASE x # count'
    <3>1. status[x] \in {"live", "ended"} /\ peerOf'[x] = peerOf[x] /\ peerOf[x] \in Peers
      BY <1>5, <1>10, <2>2, Zenon DEF RegistryInv, TypeOK
    <3>2. hashnames[peerOf[x]] = x
      BY <3>1, Zenon DEF RegistryInv, OneExchangePerPeer
    <3>3. peerOf[x] # p
      BY <3>2, 0 \notin Exchanges, Zenon DEF Exchanges
    <3> QED
      BY <1>6, <3>1, <3>2, <3>3, Zenon
  <2> QED
    BY <2>1, <2>2, Zenon
<1>11. LocalsLead'
  BY <1>4, <1>5, Zenon DEF LocalsLead, RegistryInv, Registering
<1>12. \A x \in Exchanges : x <= count =>
         peerOf'[x] = peerOf[x] /\ status'[x] = status[x] /\ lineOf'[x] = lineOf[x]
  <2>1. \A x \in Exchanges : x <= count => x # count'
    BY <1>1
  <2> QED
    BY <1>5, <2>1, Zenon
<1>13. NamesLead' /\ OneExchangePerPeer'
  BY <1>9, <1>10, Zenon DEF NamesLead, OneExchangePerPeer
<1> QED
  BY <1>1, <1>3, <1>4, <1>7, <1>11, <1>12, <1>13, Zenon

-----------------------------------------------------------------------------
\* The acceptor's record tells where accept is.
LEMMA AcceptorAt ==
  ASSUME TypeOK
  PROVE  /\ acceptor.at = "found" => acceptor.exchange \in Exchanges /\ acceptor.n \in Lines
         /\ acceptor.at = "handshake" => acceptor.p \in Peers /\ acceptor.n \in Lines
BY DEF TypeOK, Accepting, Idle

\* A remote token that leads somewhere leads to an exchange.
LEMMA TokensOfExchanges ==
  ASSUME Sizes, TypeOK, NEW p \in Peers, NEW n \in Lines, remoteTokens[p][n] # 0
  PROVE  remoteTokens[p][n] \in Exchanges
<1>1. remoteTokens[p][n] \in 0..MaxExchanges
  BY Zenon DEF TypeOK
<1> QED
  BY <1>1 DEF Exchanges, Sizes

\* A handshake never moves the line of an exchange back.
LEMMA LinesRise ==
  ASSUME Sizes, TypeOK, NEW x \in Exchanges, NEW n \in Lines
  PROVE  Applied(x, n) \in 0..MaxLines /\ lineOf[x] <= Applied(x, n)
<1>1. lineOf[x] \in 0..MaxLines /\ n \in 0..MaxLines
  BY DEF TypeOK, Lines, Sizes
<1> QED
  BY <1>1 DEF Applied, Sizes

\* CreateExchange: the new exchange has no line, so no remote token leads to it.
LEMMA CreateExchangeRegistry ==
  ASSUME Sizes, RegistryInv, NEW p \in Peers, CreateExchange(p)
  PROVE  RegistryInv'
<1>1. hashnames[p] = 0 /\ Make(p, 0) /\ UNCHANGED <<remoteTokens, line, acceptor>>
  BY Zenon DEF CreateExchange
<1>2. 0 \in 0..MaxLines
  BY DEF Sizes
<1>3. TypeOK'
  <2>1. /\ count' \in 0..MaxExchanges
        /\ hashnames' \in [Peers -> 0..MaxExchanges]
        /\ localTokens' \in [Exchanges -> 0..MaxExchanges]
        /\ peerOf' \in [Exchanges -> Peers]
        /\ status' \in [Exchanges -> {"unmade", "live", "ended", "gone"}]
        /\ lineOf' \in [Exchanges -> 0..MaxLines]
    BY <1>1, <1>2, MakeRegistry, Zenon
  <2>2. remoteTokens' = remoteTokens /\ line' = line /\ Accepting'
    BY <1>1, Zenon DEF RegistryInv, TypeOK, Accepting
  <2>3. remoteTokens \in [Peers -> [Lines -> 0..MaxExchanges]] /\ line \in [Peers -> Lines]
    BY Zenon DEF RegistryInv, TypeOK
  <2> QED
    BY <2>1, <2>2, <2>3, Zenon DEF TypeOK
<1>4. ASSUME NEW q \in Peers, NEW n \in Lines, remoteTokens[q][n] # 0
      PROVE  /\ remoteTokens[q][n] <= count' /\ n <= lineOf'[remoteTokens[q][n]]
             /\ peerOf'[remoteTokens[q][n]] = q
             /\ status'[remoteTokens[q][n]] = "gone" => n < lineOf'[remoteTokens[q][n]]
  <2> DEFINE x == remoteTokens[q][n]
  <2>1. x \in Exchanges /\ x <= count /\ x \in Nat /\ count \in Nat
    BY <1>4, TokensOfExchanges DEF RegistryInv, LinesLead, TypeOK, Exchanges, Sizes
  <2>2. /\ peerOf'[x] = peerOf[x] /\ status'[x] = status[x] /\ lineOf'[x] = lineOf[x]
        /\ count' = count + 1
    BY <1>1, <1>2, <2>1, MakeRegistry, Zenon
  <2>3. /\ n <= lineOf[x] /\ peerOf[x] = q
        /\ status[x] = "gone" => n < lineOf[x]
    BY <1>4, Zenon DEF RegistryInv, LinesLead, RemotesLead
  <2> QED
    BY <2>1, <2>2, <2>3
<1>5. LinesLead' /\ RemotesLead'
  BY <1>1, <1>4, Zenon DEF LinesLead, RemotesLead
<1> QED
  BY <1>1, <1>2, <1>3, <1>5, MakeRegistry, Zenon DEF RegistryInv

\* AcceptNew: the new exchange has the line of the handshake, and its token leads to it.
LEMMA AcceptNewRegistry ==
  ASSUME Sizes, RegistryInv, AcceptNew
  PROVE  RegistryInv'
<1> DEFINE p == acceptor.p
           m == acceptor.n
<1>1. /\ hashnames[p] = 0 /\ Make(p, m) /\ line' = line /\ acceptor' = Idle
      /\ remoteTokens' = [remoteTokens EXCEPT ![p][m] = count']
  BY Zenon DEF AcceptNew
<1>2. p \in Peers /\ m \in Lines /\ m \in 0..MaxLines
  BY AcceptorAt DEF AcceptNew, RegistryInv, Lines, Sizes
<1> HIDE DEF p, m
<1>3. count' \in 0..MaxExchanges /\ count' = count + 1 /\ count \in Nat
  BY <1>1, <1>2, MakeRegistry, Zenon
<1>4. remoteTokens' \in [Peers -> [Lines -> 0..MaxExchanges]]
  BY <1>1, <1>2, <1>3, Zenon DEF RegistryInv, TypeOK
<1>5. TypeOK'
  <2>1. /\ count' \in 0..MaxExchanges
        /\ hashnames' \in [Peers -> 0..MaxExchanges]
        /\ localTokens' \in [Exchanges -> 0..MaxExchanges]
        /\ peerOf' \in [Exchanges -> Peers]
        /\ status' \in [Exchanges -> {"unmade", "live", "ended", "gone"}]
        /\ lineOf' \in [Exchanges -> 0..MaxLines]
    BY <1>1, <1>2, MakeRegistry, Zenon
  <2>2. line' = line /\ line \in [Peers -> Lines] /\ Accepting'
    BY <1>1, Zenon DEF RegistryInv, TypeOK, Accepting
  <2> QED
    BY <1>4, <2>1, <2>2, Zenon DEF TypeOK
<1>6. ASSUME NEW q \in Peers, NEW n \in Lines, remoteTokens'[q][n] # 0
      PROVE  /\ remoteTokens'[q][n] <= count' /\ n <= lineOf'[remoteTokens'[q][n]]
             /\ peerOf'[remoteTokens'[q][n]] = q
             /\ status'[remoteTokens'[q][n]] = "gone" => n < lineOf'[remoteTokens'[q][n]]
  <2>1. CASE q = p /\ n = m
    <3>1. remoteTokens'[q][n] = count'
      BY <1>1, <1>2, <2>1, Zenon DEF RegistryInv, TypeOK
    <3>2. peerOf'[count'] = p /\ status'[count'] = "live" /\ lineOf'[count'] = m
      BY <1>1, <1>2, MakeRegistry, Zenon
    <3> QED
      BY <1>2, <1>3, <2>1, <3>1, <3>2 DEF Lines
  <2>2. CASE ~(q = p /\ n = m)
    <3> DEFINE x == remoteTokens[q][n]
    <3>1. remoteTokens'[q][n] = x
      BY <1>1, <1>2, <2>2, Zenon DEF RegistryInv, TypeOK
    <3>2. x \in Exchanges /\ x <= count /\ x \in Nat
      BY <1>6, <3>1, TokensOfExchanges DEF RegistryInv, LinesLead, TypeOK, Exchanges, Sizes
    <3>3. peerOf'[x] = peerOf[x] /\ status'[x] = status[x] /\ lineOf'[x] = lineOf[x]
      BY <1>1, <1>2, <3>2, MakeRegistry, Zenon
    <3>4. n <= lineOf[x] /\ peerOf[x] = q /\ (status[x] = "gone" => n < lineOf[x])
      BY <1>6, <3>1, Zenon DEF RegistryInv, LinesLead, RemotesLead
    <3> QED
      BY <1>3, <3>1, <3>2, <3>3, <3>4
  <2> QED
    BY <2>1, <2>2, Zenon
<1>7. LinesLead' /\ RemotesLead'
  BY <1>6, Zenon DEF LinesLead, RemotesLead
<1> QED
  BY <1>1, <1>2, <1>5, <1>7, MakeRegistry, Zenon DEF RegistryInv

\* A handshake that only moves the line of an exchange on: through a pipe, or from accept
\* to the exchange that its token found, which may be gone by then.
LEMMA HandshakeRegistry ==
  ASSUME Sizes, RegistryInv, NEW x \in Exchanges, NEW n \in Lines, Accepting',
         lineOf' = [lineOf EXCEPT ![x] = Applied(x, n)],
         UNCHANGED <<tokens, count, peerOf, status, line>>
  PROVE  RegistryInv'
<1>1. Applied(x, n) \in 0..MaxLines /\ lineOf[x] <= Applied(x, n)
  BY LinesRise, Zenon DEF RegistryInv
<1>2. TypeOK'
  BY <1>1, Zenon DEF RegistryInv, TypeOK, tokens
<1>3. \A y \in Exchanges : /\ lineOf[y] <= lineOf'[y]
                           /\ lineOf[y] \in Nat /\ lineOf'[y] \in Nat
  <2>1. \A y \in Exchanges : lineOf[y] \in Nat /\ lineOf'[y] \in Nat
    BY <1>2 DEF RegistryInv, TypeOK, Sizes
  <2> QED
    BY <1>1, <2>1 DEF RegistryInv, TypeOK
<1>4. Counted' /\ NamesLead' /\ OneExchangePerPeer' /\ LocalsLead'
  BY Zenon DEF RegistryInv, Counted, NamesLead, OneExchangePerPeer, LocalsLead, tokens
<1>5. ASSUME NEW q \in Peers, NEW k \in Lines, remoteTokens[q][k] # 0
      PROVE  /\ k <= lineOf'[remoteTokens[q][k]]
             /\ status[remoteTokens[q][k]] = "gone" => k < lineOf'[remoteTokens[q][k]]
  <2>1. remoteTokens[q][k] \in Exchanges /\ k \in Nat
    BY <1>5, TokensOfExchanges DEF RegistryInv, Lines
  <2>2. /\ k <= lineOf[remoteTokens[q][k]]
        /\ status[remoteTokens[q][k]] = "gone" => k < lineOf[remoteTokens[q][k]]
    BY <1>5, Zenon DEF RegistryInv, LinesLead, RemotesLead
  <2> QED
    BY <1>3, <2>1, <2>2
<1>6. LinesLead' /\ RemotesLead'
  BY <1>5, Zenon DEF RegistryInv, LinesLead, RemotesLead, tokens
<1> QED
  BY <1>2, <1>4, <1>6, Zenon DEF RegistryInv

\* Expire: an ended exchange stays registered until its hooks are called.
LEMMA ExpireRegistry ==
  ASSUME Sizes, RegistryInv, NEW x \in Exchanges, Expire(x)
  PROVE  RegistryInv'
<1>1. /\ status[x] = "live" /\ status' = [status EXCEPT ![x] = "ended"]
      /\ UNCHANGED <<tokens, count, peerOf, lineOf, line, acceptor>>
  BY Zenon DEF Expire
<1>2. TypeOK'
  BY <1>1, Zenon DEF RegistryInv, TypeOK, Accepting, tokens
<1>3. /\ \A y \in Exchanges : y # x => status'[y] = status[y]
      /\ status'[x] = "ended"
  BY <1>1, Zenon DEF RegistryInv, TypeOK
<1>4. \A y \in Exchanges : /\ status'[y] \in Registering <=> status[y] \in Registering
                           /\ status'[y] = "unmade" <=> status[y] = "unmade"
                           /\ status'[y] = "gone" <=> status[y] = "gone"
  BY <1>1, <1>3, Zenon DEF Registering
<1>5. Counted' /\ LocalsLead'
  BY <1>1, <1>4, Zenon DEF RegistryInv, Counted, LocalsLead, tokens
<1>6. OneExchangePerPeer'
  BY <1>1, <1>4, Zenon DEF RegistryInv, OneExchangePerPeer, Registering, tokens
<1>7. \A q \in Peers : hashnames[q] # 0 => hashnames[q] \in Exchanges
  BY DEF RegistryInv, TypeOK, Exchanges, Sizes
<1>8. NamesLead'
  BY <1>1, <1>4, <1>7, Zenon DEF RegistryInv, NamesLead, tokens
<1>9. \A q \in Peers, k \in Lines : remoteTokens[q][k] # 0 => remoteTokens[q][k] \in Exchanges
  BY TokensOfExchanges, Zenon DEF RegistryInv
<1>10. LinesLead' /\ RemotesLead'
  BY <1>1, <1>4, <1>9, Zenon DEF RegistryInv, LinesLead, RemotesLead, tokens
<1> QED
  BY <1>2, <1>5, <1>6, <1>8, <1>10, Zenon DEF RegistryInv

\* Steps that change neither the tables nor the exchanges.
LEMMA OthersRegistry ==
  ASSUME RegistryInv, UNCHANGED <<tokens, exchangeVars>>, line' \in [Peers -> Lines], Accepting'
  PROVE  RegistryInv'
BY Zenon DEF RegistryInv, TypeOK, Counted, NamesLead, LinesLead, OneExchangePerPeer, LocalsLead,
       RemotesLead, tokens, exchangeVars

\* AcceptKnown: the token of the old line is removed, and the one of the new line leads to
\* the exchange whose line it now is.
LEMMA AcceptKnownRegistry ==
  ASSUME Sizes, RegistryInv, AcceptKnown
  PROVE  RegistryInv'
<1> DEFINE p == acceptor.p
           m == acceptor.n
           x == hashnames[p]
           old == lineOf[x]
           new == Applied(x, m)
<1>1. /\ x # 0 /\ lineOf' = [lineOf EXCEPT ![x] = new] /\ acceptor' = Idle
      /\ UNCHANGED <<hashnames, localTokens, count, peerOf, status, line>>
      /\ remoteTokens' = IF old = new THEN remoteTokens
              ELSE [remoteTokens EXCEPT ![p] =
                     [n \in Lines |-> IF n = old THEN 0 ELSE IF n = new THEN x ELSE @[n]]]
  BY Zenon DEF AcceptKnown
<1>2. p \in Peers /\ m \in Lines
  BY AcceptorAt, Zenon DEF AcceptKnown, RegistryInv
<1>3. x \in Exchanges /\ x \in 0..MaxExchanges
  <2>1. hashnames \in [Peers -> 0..MaxExchanges]
    BY Zenon DEF RegistryInv, TypeOK
  <2>2. x \in 0..MaxExchanges
    BY <1>2, <2>1, Zenon
  <2> QED
    BY <1>1, <2>2 DEF Exchanges, Sizes
<1>4. new \in 0..MaxLines /\ old <= new /\ old \in Nat
  <2>1. TypeOK
    BY Zenon DEF RegistryInv
  <2>2. new \in 0..MaxLines /\ old <= new
    BY <1>2, <1>3, <2>1, LinesRise, Zenon
  <2>3. old \in 0..MaxLines
    BY <1>3, <2>1, Zenon DEF TypeOK
  <2> QED
    BY <2>2, <2>3 DEF Sizes
<1>5. status[x] \in Registering /\ peerOf[x] = p
  BY <1>1, <1>2, Zenon DEF RegistryInv, NamesLead
<1>6. x <= count
  <2>1. status[x] # "unmade"
    BY <1>5, Zenon DEF Registering
  <2>2. ~(x > count)
    BY <1>3, <2>1, Zenon DEF RegistryInv, Counted
  <2> HIDE DEF x
  <2> QED
    BY <1>3, <2>2 DEF RegistryInv, TypeOK, Sizes
<1> HIDE DEF p, m, x, old, new
<1>7. /\ \A q \in Peers, n \in Lines :
           \/ remoteTokens'[q][n] \in {0, remoteTokens[q][n]}
           \/ remoteTokens'[q][n] = x /\ q = p /\ n = new
      /\ remoteTokens' \in [Peers -> [Lines -> 0..MaxExchanges]]
  <2>1. CASE old = new
    BY <1>1, <2>1, Zenon DEF RegistryInv, TypeOK
  <2>2. CASE old # new
    <3> DEFINE row == [n \in Lines |-> IF n = old THEN 0
                                       ELSE IF n = new THEN x ELSE remoteTokens[p][n]]
    <3>1. remoteTokens \in [Peers -> [Lines -> 0..MaxExchanges]] /\ 0 \in 0..MaxExchanges
      BY DEF RegistryInv, TypeOK, Sizes
    <3>2. remoteTokens' = [remoteTokens EXCEPT ![p] = row]
      BY <1>1, <2>2, Zenon
    <3>3. row \in [Lines -> 0..MaxExchanges]
      BY <1>2, <1>3, <3>1, Zenon
    <3>4. \A n \in Lines : row[n] \in {0, remoteTokens[p][n]} \/ (row[n] = x /\ n = new)
      BY Zenon
    <3> HIDE DEF row
    <3>5. remoteTokens' \in [Peers -> [Lines -> 0..MaxExchanges]]
      BY <3>1, <3>2, <3>3, Zenon
    <3>6. remoteTokens'[p] = row /\ \A q \in Peers : q # p => remoteTokens'[q] = remoteTokens[q]
      BY <1>2, <3>1, <3>2, Zenon
    <3> QED
      BY <3>4, <3>5, <3>6, Zenon
  <2> QED
    BY <2>1, <2>2, Zenon
<1>8. /\ \A y \in Exchanges : lineOf[y] <= lineOf'[y] /\ lineOf[y] \in Nat
                              /\ lineOf'[y] \in Nat
      /\ lineOf' \in [Exchanges -> 0..MaxLines]
      /\ lineOf'[x] = new
  <2>1. lineOf' \in [Exchanges -> 0..MaxLines] /\ lineOf'[x] = new
    BY <1>1, <1>3, <1>4, Zenon DEF RegistryInv, TypeOK
  <2>2. \A y \in Exchanges : lineOf[y] \in Nat /\ lineOf'[y] \in Nat
    BY <2>1 DEF RegistryInv, TypeOK, Sizes
  <2>3. \A y \in Exchanges : y # x => lineOf'[y] = lineOf[y]
    BY <1>1, Zenon DEF RegistryInv, TypeOK
  <2>4. lineOf[x] <= lineOf'[x]
    BY <1>4, <2>1, Zenon DEF old
  <2> QED
    BY <2>1, <2>2, <2>3, <2>4
<1>9. TypeOK'
  BY <1>1, <1>7, <1>8, Zenon DEF RegistryInv, TypeOK, Accepting
<1>10. Counted' /\ NamesLead' /\ OneExchangePerPeer' /\ LocalsLead'
  BY <1>1, Zenon DEF RegistryInv, Counted, NamesLead, OneExchangePerPeer, LocalsLead
<1>11. ASSUME NEW q \in Peers, NEW n \in Lines, remoteTokens'[q][n] # 0
       PROVE  /\ remoteTokens'[q][n] <= count /\ n <= lineOf'[remoteTokens'[q][n]]
              /\ peerOf[remoteTokens'[q][n]] = q
              /\ status[remoteTokens'[q][n]] = "gone" => n < lineOf'[remoteTokens'[q][n]]
  <2>1. CASE remoteTokens'[q][n] = x /\ q = p /\ n = new
    BY <1>4, <1>5, <1>6, <1>8, <2>1 DEF Registering
  <2>2. CASE remoteTokens'[q][n] = remoteTokens[q][n]
    <3> DEFINE y == remoteTokens[q][n]
    <3>1. y \in Exchanges /\ n \in Nat
      BY <1>11, <2>2, TokensOfExchanges DEF RegistryInv, Lines
    <3>2. /\ y <= count /\ n <= lineOf[y] /\ peerOf[y] = q
          /\ status[y] = "gone" => n < lineOf[y]
      BY <1>11, <2>2, Zenon DEF RegistryInv, LinesLead, RemotesLead
    <3>3. lineOf[y] <= lineOf'[y] /\ lineOf[y] \in Nat /\ lineOf'[y] \in Nat
      BY <1>8, <3>1, Zenon
    <3> HIDE DEF y
    <3>4. n <= lineOf'[y] /\ (status[y] = "gone" => n < lineOf'[y])
      BY <3>1, <3>2, <3>3
    <3> QED
      BY <2>2, <3>2, <3>4, Zenon DEF y
  <2> QED
    BY <1>7, <1>11, <2>1, <2>2, Zenon
<1>12. LinesLead' /\ RemotesLead'
  BY <1>1, <1>11 DEF LinesLead, RemotesLead
<1> QED
  BY <1>9, <1>10, <1>12, Zenon DEF RegistryInv

\* ExchangeClosed: the entries that are removed by their keys are the exchange's own, and
\* a remote token that is left is of an earlier line.
LEMMA ExchangeClosedRegistry ==
  ASSUME Sizes, RegistryInv, NEW x \in Exchanges, ExchangeClosed(x)
  PROVE  RegistryInv'
<1> DEFINE p == peerOf[x]
           row == [n \in Lines |-> IF n = lineOf[x] THEN 0 ELSE remoteTokens[p][n]]
<1>1. /\ status[x] = "ended"
      /\ status' = [status EXCEPT ![x] = "gone"]
      /\ hashnames' = [hashnames EXCEPT ![p] = 0]
      /\ localTokens' = [localTokens EXCEPT ![x] = 0]
      /\ remoteTokens' = [remoteTokens EXCEPT ![p] = row]
      /\ UNCHANGED <<count, peerOf, lineOf, line, acceptor>>
  BY Zenon DEF ExchangeClosed
<1>2. /\ TypeOK /\ p \in Peers /\ 0 \in 0..MaxExchanges
      /\ remoteTokens \in [Peers -> [Lines -> 0..MaxExchanges]]
  BY DEF RegistryInv, TypeOK, Sizes
<1>3. row \in [Lines -> 0..MaxExchanges]
  BY <1>2, Zenon
<1>4. \A n \in Lines : row[n] # 0 => n # lineOf[x] /\ row[n] = remoteTokens[p][n]
  BY Zenon
<1> HIDE DEF p, row
<1>5. TypeOK'
  <2>1. /\ status' \in [Exchanges -> {"unmade", "live", "ended", "gone"}]
        /\ hashnames' \in [Peers -> 0..MaxExchanges]
        /\ localTokens' \in [Exchanges -> 0..MaxExchanges]
    BY <1>1, <1>2, Zenon DEF TypeOK
  <2>2. remoteTokens' \in [Peers -> [Lines -> 0..MaxExchanges]]
    BY <1>1, <1>2, <1>3, Zenon
  <2> QED
    BY <1>1, <1>2, <2>1, <2>2, Zenon DEF TypeOK, Accepting
<1>6. /\ status'[x] = "gone" /\ localTokens'[x] = 0 /\ hashnames'[p] = 0
      /\ \A y \in Exchanges : y # x =>
           status'[y] = status[y] /\ localTokens'[y] = localTokens[y]
      /\ \A q \in Peers : q # p =>
           hashnames'[q] = hashnames[q] /\ remoteTokens'[q] = remoteTokens[q]
      /\ remoteTokens'[p] = row
  BY <1>1, <1>2, Zenon DEF TypeOK
<1>7. hashnames[p] = x
  BY <1>1, Zenon DEF RegistryInv, OneExchangePerPeer, p
<1>8. Counted'
  BY <1>1, <1>6, Zenon DEF RegistryInv, Counted
<1>9. LocalsLead'
  BY <1>6, Zenon DEF RegistryInv, LocalsLead, Registering
<1>10. OneExchangePerPeer'
  <2> SUFFICES ASSUME NEW y \in Exchanges, status'[y] \in {"live", "ended"}
               PROVE  hashnames'[peerOf'[y]] = y
    BY Zenon DEF OneExchangePerPeer
  <2>1. y # x /\ status[y] \in {"live", "ended"}
    BY <1>6, Zenon
  <2>2. hashnames[peerOf[y]] = y /\ peerOf[y] \in Peers
    BY <1>2, <2>1, Zenon DEF RegistryInv, OneExchangePerPeer, TypeOK
  <2>3. peerOf[y] # p
    BY <1>7, <2>1, <2>2, Zenon
  <2> QED
    BY <1>1, <1>6, <2>2, <2>3, Zenon
<1>11. NamesLead'
  <2> SUFFICES ASSUME NEW q \in Peers, hashnames'[q] # 0
               PROVE  status'[hashnames'[q]] \in Registering /\ peerOf'[hashnames'[q]] = q
    BY Zenon DEF NamesLead
  <2>1. q # p /\ hashnames'[q] = hashnames[q]
    BY <1>6, Zenon
  <2>2. status[hashnames[q]] \in Registering /\ peerOf[hashnames[q]] = q
    BY <2>1, Zenon DEF RegistryInv, NamesLead
  <2>3. hashnames[q] \in Exchanges
    BY <1>2, <2>1 DEF TypeOK, Exchanges, Sizes
  <2>4. hashnames[q] # x
    BY <2>1, <2>2, Zenon DEF p
  <2> QED
    BY <1>1, <1>6, <2>1, <2>2, <2>3, <2>4, Zenon
<1>12. ASSUME NEW q \in Peers, NEW n \in Lines, remoteTokens'[q][n] # 0
       PROVE  /\ remoteTokens'[q][n] <= count /\ n <= lineOf[remoteTokens'[q][n]]
              /\ peerOf[remoteTokens'[q][n]] = q
              /\ status'[remoteTokens'[q][n]] = "gone" => n < lineOf[remoteTokens'[q][n]]
  <2> DEFINE y == remoteTokens[q][n]
  <2>1. remoteTokens'[q][n] = y /\ (q = p => n # lineOf[x])
    BY <1>4, <1>6, <1>12, Zenon
  <2>2. y \in Exchanges /\ n \in Nat
    BY <1>2, <1>12, <2>1, TokensOfExchanges DEF Lines
  <2>3. /\ y <= count /\ n <= lineOf[y] /\ peerOf[y] = q
        /\ status[y] = "gone" => n < lineOf[y]
    BY <1>12, <2>1, Zenon DEF RegistryInv, LinesLead, RemotesLead
  <2>4. lineOf[y] \in Nat
    BY <1>2, <2>2 DEF TypeOK, Sizes
  <2> HIDE DEF y
  <2>5. status'[y] = "gone" => n < lineOf[y]
    <3>1. CASE y = x
      BY <2>1, <2>2, <2>3, <2>4, <3>1 DEF p
    <3>2. CASE y # x
      BY <1>6, <2>2, <2>3, <3>2, Zenon
    <3> QED
      BY <3>1, <3>2, Zenon
  <2> QED
    BY <2>1, <2>3, <2>5, Zenon
<1>13. LinesLead' /\ RemotesLead'
  BY <1>1, <1>12 DEF LinesLead, RemotesLead
<1> QED
  BY <1>5, <1>8, <1>9, <1>10, <1>11, <1>13, Zenon DEF RegistryInv

-----------------------------------------------------------------------------
\* RegistryIsCurrent, for every set of peers and every number of exchanges and lines: a
\* peer never has two exchanges in the endpoint's tables, and the tokens of a line that is
\* in use never lead to an exchange that onExchangeClosed has removed.
THEOREM Registry ==
  ASSUME Sizes, Peers # {}
  PROVE  RegistryInit /\ [][RegistryNext]_registryVars => []RegistryIsCurrent
<1>1. ASSUME RegistryInv, [RegistryNext]_registryVars PROVE RegistryInv'
  <2> USE <1>1
  <2>1. ASSUME NEW p \in Peers, CreateExchange(p) PROVE RegistryInv'
    BY <2>1, CreateExchangeRegistry, Zenon
  <2>2. ASSUME NEW p \in Peers, Restart(p) PROVE RegistryInv'
    <3>1. line' \in [Peers -> Lines]
      <4>1. line \in [Peers -> Lines] /\ line[p] \in Lines /\ line[p] < MaxLines
        BY <2>2, Zenon DEF Restart, RegistryInv, TypeOK
      <4>2. line[p] + 1 \in Lines
        BY <4>1 DEF Lines, Sizes
      <4> QED
        BY <2>2, <4>1, <4>2, Zenon DEF Restart
    <3>2. Accepting' /\ UNCHANGED <<tokens, exchangeVars>>
      BY <2>2, Zenon DEF Restart, RegistryInv, TypeOK, Accepting
    <3> QED
      BY <3>1, <3>2, OthersRegistry, Zenon
  <2>3. ASSUME NEW x \in Exchanges, Expire(x) PROVE RegistryInv'
    BY <2>3, ExpireRegistry, Zenon
  <2>4. ASSUME NEW x \in Exchanges, ExchangeClosed(x) PROVE RegistryInv'
    BY <2>4, ExchangeClosedRegistry, Zenon
  <2>5. ASSUME NEW x \in Exchanges, NEW n \in Lines, PipeHandshake(x, n) PROVE RegistryInv'
    <3>1. Accepting'
      BY <2>5, Zenon DEF PipeHandshake, RegistryInv, TypeOK, Accepting
    <3> QED
      BY <2>5, <3>1, HandshakeRegistry, Zenon DEF PipeHandshake
  <2>6. ASSUME NEW p \in Peers, NEW n \in Lines, AcceptToken(p, n) PROVE RegistryInv'
    <3>1. Accepting'
      <4>1. CASE remoteTokens[p][n] # 0
        BY <2>6, <4>1, TokensOfExchanges, Zenon DEF AcceptToken, RegistryInv, Accepting
      <4>2. CASE remoteTokens[p][n] = 0
        BY <2>6, <4>2, Zenon DEF AcceptToken, Accepting
      <4> QED
        BY <4>1, <4>2, Zenon
    <3>2. UNCHANGED <<tokens, exchangeVars>> /\ line' \in [Peers -> Lines]
      BY <2>6, Zenon DEF AcceptToken, RegistryInv, TypeOK
    <3> QED
      BY <3>1, <3>2, OthersRegistry, Zenon
  <2>7. CASE AcceptFound
    <3>1. acceptor.exchange \in Exchanges /\ acceptor.n \in Lines
      BY <2>7, AcceptorAt, Zenon DEF AcceptFound, RegistryInv
    <3>2. Accepting'
      BY <2>7, Zenon DEF AcceptFound, Accepting
    <3> QED
      BY <2>7, <3>1, <3>2, HandshakeRegistry, Zenon DEF AcceptFound
  <2>8. CASE AcceptKnown
    BY <2>8, AcceptKnownRegistry, Zenon
  <2>9. CASE AcceptNew
    BY <2>9, AcceptNewRegistry, Zenon
  <2>10. CASE UNCHANGED registryVars
    <3>1. line' \in [Peers -> Lines] /\ Accepting' /\ UNCHANGED <<tokens, exchangeVars>>
      BY <2>10, Zenon DEF registryVars, RegistryInv, TypeOK, Accepting
    <3> QED
      BY <3>1, OthersRegistry, Zenon
  <2> QED
    BY <2>1, <2>2, <2>3, <2>4, <2>5, <2>6, <2>7, <2>8, <2>9, <2>10, Zenon DEF RegistryNext
<1>2. RegistryInit => RegistryInv
  BY InitRegistry, Zenon
<1> QED
  BY <1>1, <1>2, InvIsCurrent, PTL

-----------------------------------------------------------------------------
(* The hand-over channel of the mux transport                              *)

Running == {s \in Subs : accepter[s] # "done"}

(* The WaitGroup counts the accepters that have not returned, which is what *)
(* lets Close conclude from zero that none of them is left.                 *)
MuxInv ==
  /\ accepter \in [Subs -> {"accept", "send", "done"}]
  /\ wg = Cardinality(Running)
  /\ NoSendOnClosed

-----------------------------------------------------------------------------
\* Every transport starts with an accepter that is counted.
LEMMA InitMux == Init => MuxInv
<1> SUFFICES ASSUME Init PROVE MuxInv
  BY Zenon
<1>1. accepter \in [Subs -> {"accept", "send", "done"}] /\ cAcceptClosed = FALSE
  BY Zenon DEF Init, MuxInit
<1>2. Running = Subs
  BY Zenon DEF Init, MuxInit, Running
<1>3. wg = Cardinality(Subs)
  BY Zenon DEF Init, MuxInit
<1> QED
  BY <1>1, <1>2, <1>3, Zenon DEF MuxInv, NoSendOnClosed

\* An accepter that moves between Accept and the hand-over is running before and after,
\* and the channel is open.
LEMMA MovesMux ==
  ASSUME MuxInv, NEW s \in Subs, accepter[s] # "done",
         NEW at \in {"accept", "send"}, AccepterGoto(s, at), UNCHANGED <<wg, cAcceptClosed>>
  PROVE  MuxInv'
<1>1. accepter' \in [Subs -> {"accept", "send", "done"}]
  BY Zenon DEF MuxInv, AccepterGoto
<1>2. Running' = Running
  BY Zenon DEF MuxInv, AccepterGoto, Running
<1>3. ~cAcceptClosed
  BY Zenon DEF MuxInv, NoSendOnClosed
<1> QED
  BY <1>1, <1>2, <1>3, Zenon DEF MuxInv, NoSendOnClosed

\* An accepter that returns is taken from the count.
LEMMA ReturnsMux ==
  ASSUME MuxInv, IsFiniteSet(Subs), NEW s \in Subs, AccepterReturns(s)
  PROVE  MuxInv'
<1>1. accepter' \in [Subs -> {"accept", "send", "done"}] /\ cAcceptClosed' = cAcceptClosed
  BY Zenon DEF MuxInv, AccepterReturns, AccepterGoto
<1>2. s \in Running /\ Running' = Running \ {s}
  BY Zenon DEF MuxInv, AccepterReturns, AccepterGoto, Running
<1>3. IsFiniteSet(Running)
  BY FS_Subset, Zenon DEF Running
<1>4. Cardinality(Running') = Cardinality(Running) - 1
  BY <1>2, <1>3, FS_RemoveElement, Zenon
<1>5. wg' = Cardinality(Running')
  BY <1>4, Zenon DEF MuxInv, AccepterReturns
<1>6. NoSendOnClosed'
  BY <1>1 DEF MuxInv, NoSendOnClosed, AccepterReturns, AccepterGoto
<1> QED
  BY <1>1, <1>5, <1>6, Zenon DEF MuxInv

\* When the count is zero every accepter has returned, so the channel may be closed.
LEMMA CloseAcceptMux ==
  ASSUME MuxInv, IsFiniteSet(Subs), CloseAccept
  PROVE  MuxInv'
<1>1. IsFiniteSet(Running)
  BY FS_Subset, Zenon DEF Running
<1>2. Running = {}
  BY <1>1, FS_EmptySet, Zenon DEF MuxInv, CloseAccept
<1>3. Running' = Running /\ \A s \in Subs : accepter'[s] = "done"
  BY <1>2, Zenon DEF Running, CloseAccept
<1> QED
  BY <1>3, Zenon DEF MuxInv, NoSendOnClosed, CloseAccept

\* Steps that leave the accepters, the count and the channel alone.
LEMMA OthersMux ==
  ASSUME MuxInv, UNCHANGED <<accepter, wg, cAcceptClosed>>
  PROVE  MuxInv'
BY Zenon DEF MuxInv, NoSendOnClosed, Running

\* NoSendOnClosed, for every finite set of transports: an accepter of the mux transport
\* never sends on cAccept after Close closed it, whatever Endpoint.Close and the accept
\* loop do in between.
THEOREM SendsPrecedeClose ==
  ASSUME IsFiniteSet(Subs)
  PROVE  Spec => []NoSendOnClosed
<1>1. ASSUME MuxInv, [Next]_vars PROVE MuxInv'
  <2>1. ASSUME NEW s \in Subs, AcceptSub(s) PROVE MuxInv'
    BY <1>1, <2>1, MovesMux, Zenon DEF AcceptSub
  <2>2. ASSUME NEW s \in Subs, AccepterReturns(s) PROVE MuxInv'
    BY <1>1, <2>2, ReturnsMux, Zenon
  <2>3. ASSUME NEW s \in Subs, Accept(s) PROVE MuxInv'
    BY <1>1, <2>3, MovesMux, Zenon DEF Accept, HandOver
  <2>4. CASE TransportClosed
    BY <1>1, <2>4, CloseAcceptMux, Zenon DEF TransportClosed
  <2>5. CASE CallClose \/ StopModules \/ StopFails \/ LockToClose \/ CloseTransports
    <3>1. UNCHANGED <<accepter, wg, cAcceptClosed>>
      BY <2>5, Zenon DEF CallClose, StopModules, StopFails, LockToClose, CloseTransports, CloseSub,
                  muxVars
    <3> QED
      BY <1>1, <3>1, OthersMux, Zenon
  <2>6. CASE AcceptEOF \/ ReadFirst \/ LoopLocks
    <3>1. UNCHANGED <<accepter, wg, cAcceptClosed>>
      BY <2>6, Zenon DEF AcceptEOF, ReadFirst, LoopLocks, LockToAccept, Locked, LockAgain,
                  LockedAgain, muxVars
    <3> QED
      BY <1>1, <3>1, OthersMux
  <2>7. CASE UNCHANGED vars
    BY <1>1, <2>7, OthersMux, Zenon DEF vars, muxVars
  <2> QED
    BY <1>1, <2>1, <2>2, <2>3, <2>4, <2>5, <2>6, <2>7, Zenon DEF Next, CloseStep, LoopStep
<1>2. MuxInv => NoSendOnClosed
  BY Zenon DEF MuxInv
<1> QED
  BY <1>1, <1>2, InitMux, PTL DEF Spec

-----------------------------------------------------------------------------
(* An Open that fails                                                      *)

\* Before start nothing is open, and no module has been initialised.
StartupInv ==
  pc \in {"new", "options", "error"} =>
    /\ transport = "nil" /\ accepting = FALSE
    /\ modules \in [Modules -> {"unknown", "registered"}]

\* Every step of an endpoint that opens keeps the invariant (telehash.Open, e3x.New, start).
LEMMA StartupStep ==
  ASSUME StartupInv, [StartupNext]_startupVars
  PROVE  StartupInv'
<1> USE DEF StartupInv
<1>1. ASSUME NEW opts \in Programs, OpenEndpoint(opts)
      PROVE  StartupInv'
  BY <1>1, Zenon DEF OpenEndpoint, rest
<1>2. CASE RegisterModule
  <2> DEFINE key == Head(options).key
  <2>1. UNCHANGED <<transport, accepting>> /\ pc = "options"
    BY <1>2, Zenon DEF RegisterModule, rest, Option
  <2>2. modules' = modules \/ modules' = [modules EXCEPT ![key] = "registered"]
    BY <1>2, Zenon DEF RegisterModule
  <2>3. modules' \in [Modules -> {"unknown", "registered"}]
    BY <2>1, <2>2, Zenon
  <2> QED
    BY <2>1, <2>3, Zenon
<1>3. CASE Keys \/ Transport \/ NilOption \/ Defaults
  BY <1>3, Zenon DEF Keys, Transport, NilOption, Defaults, Option, rest
<1>4. CASE OpenTransport \/ OpenTransportFails \/ Opened
  BY <1>4, Zenon DEF OpenTransport, OpenTransportFails, Opened, StartFails, rest
<1>5. ASSUME NEW m \in Modules, InitModule(m) \/ InitFails(m) \/ StartModule(m) \/ StartModuleFails(m)
      PROVE  StartupInv'
  BY <1>5, Zenon DEF InitModule, InitFails, StartModule, StartModuleFails, StartFails, rest
<1>6. CASE Close \/ CloseTransport
  BY <1>6, Zenon DEF Close, CloseTransport, rest
<1>7. ASSUME NEW m \in Modules, StopModule(m) \/ StopModuleFails(m)
      PROVE  StartupInv'
  BY <1>7, Zenon DEF StopModule, StopModuleFails, rest
<1>8. ASSUME NEW m \in UserModules, LateRegister(m)
      PROVE  StartupInv'
  BY <1>8, Zenon DEF LateRegister, rest
<1>9. CASE UNCHANGED startupVars
  BY <1>9, Zenon DEF startupVars
<1> QED
  BY <1>1, <1>2, <1>3, <1>4, <1>5, <1>6, <1>7, <1>8, <1>9, Zenon
  DEF StartupNext, OpenStep, StartStep, StartupCloseStep

(* For every sequence of options and every set of modules: an Open that    *)
(* returns an error has opened no transport, started no accept loop and    *)
(* initialised no module (Open, setOptions, start).                        *)
THEOREM OpenLeavesNothing == StartupSpec => []FailedOpenLeavesNothing
<1>1. StartupInit => StartupInv
  BY Zenon DEF StartupInit, StartupInv
<1>2. StartupInv => FailedOpenLeavesNothing
  BY Zenon DEF StartupInv, FailedOpenLeavesNothing
<1> QED
  BY <1>1, <1>2, StartupStep, PTL DEF StartupSpec

-----------------------------------------------------------------------------
(* The connections of a pipe                                               *)

Places == {"idle", "dial", "start", "write", "open", "mark", "shut", "wait", "returned", "refused"}

PipeType ==
  /\ made \in Nat /\ conn \in Nat
  /\ place \in [PipeWriters \cup PipeClosers -> Places]
  /\ got \in [PipeWriters \cup PipeClosers -> Nat]

PipeInv == PipeType /\ WorkingIsRead

\* The closer that is about to close c.
Shutting(c) == \E k \in PipeClosers : place[k] = "shut" /\ got[k] = c
\* The writer that is about to start the reader of c.
Starting(c) == \E w \in PipeWriters : place[w] = "start" /\ got[w] = c

\* WorkingIsRead in these words.
LEMMA WorkingIs ==
  WorkingIsRead <=> /\ \A c \in Usable : c = conn \/ Shutting(c)
                    /\ conn # 0 => conn \in reader \/ Starting(conn)
BY Zenon DEF WorkingIsRead, Shutting, Starting

\* Who stays where it was, and holds what it held, is still shutting or starting.
LEMMA OthersStay ==
  ASSUME NEW g, NEW c,
         \A h \in PipeWriters \cup PipeClosers : h # g => place'[h] = place[h] /\ got'[h] = got[h],
         place[g] \notin {"shut", "start"}
  PROVE  (Shutting(c) => Shutting(c)') /\ (Starting(c) => Starting(c)')
BY Zenon DEF Shutting, Starting

\* Every step of the calls on a pipe keeps the inductive invariant (exchange_pipe.go).
LEMMA PipeStepInv ==
  ASSUME PipeInv, [PipeNext]_pipeVars
  PROVE  PipeInv'
<1> USE DEF connVars
<1>0. /\ PipeType
      /\ \A c \in Usable : c = conn \/ Shutting(c)
      /\ conn # 0 => conn \in reader \/ Starting(conn)
  BY WorkingIs, Zenon DEF PipeInv
<1>a. ASSUME PipeType', \A c \in Usable' : c = conn' \/ Shutting(c)',
             conn' # 0 => conn' \in reader' \/ Starting(conn)'
      PROVE  PipeInv'
  BY <1>a, Zenon DEF PipeInv, WorkingIsRead, Shutting, Starting
<1>1. ASSUME NEW w \in PipeWriters, Write(w) \/ WriteConn(w)
      PROVE  PipeInv'
  <2>1. /\ UNCHANGED <<conn, made, shut, failed, reader>> /\ PipeType'
        /\ place[w] \notin {"shut", "start"}
        /\ \A h \in PipeWriters \cup PipeClosers : h # w => place'[h] = place[h] /\ got'[h] = got[h]
    BY <1>0, <1>1 DEF Write, WriteConn, PipeType, Places
  <2>2. Usable' = Usable
    BY <2>1, Zenon DEF Usable
  <2> QED
    BY <1>0, <1>a, <2>1, <2>2, OthersStay, Zenon
<1>2. ASSUME NEW w \in PipeWriters, dial(w)
      PROVE  PipeInv'
  <2>1. /\ UNCHANGED <<shut, failed, reader>>
        /\ place[w] \notin {"shut", "start"}
        /\ \A h \in PipeWriters \cup PipeClosers : h # w => place'[h] = place[h] /\ got'[h] = got[h]
    BY <1>0, <1>2, Zenon DEF dial, PipeType, Places
  <2>2. PipeType'
    BY <1>0, <1>2 DEF dial, PipeType, Places
  <2>3. CASE UNCHANGED <<conn, made>>
    <3>1. Usable' = Usable
      BY <2>1, <2>3, Zenon DEF Usable
    <3> QED
      BY <1>0, <1>a, <2>1, <2>2, <2>3, <3>1, OthersStay, Zenon
  <2>4. CASE conn = 0 /\ made' = made + 1 /\ conn' = made + 1 /\ place'[w] = "start" /\ got'[w] = conn'
    <3>1. Starting(conn)'
      BY <2>4, Zenon DEF Starting
    <3>2. ASSUME NEW c \in Usable' PROVE c = conn' \/ Shutting(c)'
      <4>1. CASE c = made + 1
        BY <2>4, <4>1, Zenon
      <4>2. CASE c # made + 1
        <5>1. c \in Usable /\ c # 0
          BY <1>0, <2>1, <2>4, <4>2 DEF Usable, PipeType
        <5> QED
          BY <1>0, <2>1, <2>4, <5>1, OthersStay, Zenon
      <4> QED
        BY <4>1, <4>2, Zenon
    <3> QED
      BY <1>a, <2>2, <3>1, <3>2, Zenon
  <2> QED
    BY <1>0, <1>2, <2>3, <2>4, Zenon DEF dial, PipeType, Places
<1>3. ASSUME NEW w \in PipeWriters, StartReader(w)
      PROVE  PipeInv'
  <2>1. UNCHANGED <<conn, made, shut, failed, got>> /\ reader' = reader \cup ({conn} \ {0}) /\ PipeType'
    BY <1>0, <1>3, Zenon DEF StartReader, PipeType, Places
  <2>2. ASSUME NEW c, Shutting(c) PROVE Shutting(c)'
    BY <1>0, <1>3, <2>2, Zenon DEF StartReader, PipeType, Shutting
  <2>3. Usable' = Usable
    BY <2>1, Zenon DEF Usable
  <2> QED
    BY <1>0, <1>a, <2>1, <2>2, <2>3, Zenon
<1>4. ASSUME NEW c \in Conns, Fail(c)
      PROVE  PipeInv'
  <2>1. UNCHANGED <<conn, reader, place, got>> /\ PipeType' /\ Usable' \subseteq Usable
    BY <1>0, <1>4, Zenon DEF Fail, PipeType, Usable
  <2>2. \A d : (Shutting(d) => Shutting(d)') /\ (Starting(d) => Starting(d)')
    BY <2>1, Zenon DEF Shutting, Starting
  <2> QED
    BY <1>0, <1>a, <2>1, <2>2, Zenon
<1>5. ASSUME NEW c \in Conns, ReaderReturns(c)
      PROVE  PipeInv'
  <2>1. UNCHANGED <<place, got>> /\ PipeType' /\ Usable' = Usable /\ c \notin Usable
    BY <1>0, <1>5, Zenon DEF ReaderReturns, PipeType, Usable
  <2>2. \A d : (Shutting(d) => Shutting(d)') /\ (Starting(d) => Starting(d)')
    BY <2>1, Zenon DEF Shutting, Starting
  <2>3. conn' = (IF conn = c THEN 0 ELSE conn) /\ reader' = reader \ {c}
    BY <1>5, Zenon DEF ReaderReturns
  <2> QED
    BY <1>0, <1>a, <2>1, <2>2, <2>3, Zenon
<1>6. ASSUME NEW k \in PipeClosers, CloseCall(k) \/ CloseReturns(k)
      PROVE  PipeInv'
  <2>1. /\ UNCHANGED <<conn, made, shut, failed, reader>> /\ PipeType'
        /\ place[k] \notin {"shut", "start"}
        /\ \A h \in PipeWriters \cup PipeClosers : h # k => place'[h] = place[h] /\ got'[h] = got[h]
    BY <1>0, <1>6, Zenon DEF CloseCall, CloseReturns, PipeType, Places
  <2>2. Usable' = Usable
    BY <2>1, Zenon DEF Usable
  <2> QED
    BY <1>0, <1>a, <2>1, <2>2, OthersStay, Zenon
<1>7. ASSUME NEW k \in PipeClosers, CloseMarks(k)
      PROVE  PipeInv'
  <2>1. /\ conn' = 0 /\ PipeType'
        /\ place[k] \notin {"shut", "start"}
        /\ \A h \in PipeWriters \cup PipeClosers : h # k => place'[h] = place[h] /\ got'[h] = got[h]
    BY <1>0, <1>7, Zenon DEF CloseMarks, PipeType, Places
  <2>2. Usable' = Usable
    BY <1>7, Zenon DEF Usable, CloseMarks
  <2>3. ASSUME NEW c, c = conn PROVE Shutting(c)'
    BY <1>0, <1>7, <2>3, Zenon DEF Shutting, CloseMarks, PipeType, Places
  <2>4. ASSUME NEW c \in Usable' PROVE Shutting(c)'
    BY <1>0, <2>1, <2>2, <2>3, OthersStay, Zenon
  <2> QED
    BY <1>a, <2>1, <2>4, Zenon
<1>8. ASSUME NEW k \in PipeClosers, CloseConn(k)
      PROVE  PipeInv'
  <2>1. UNCHANGED <<conn, reader, got>> /\ PipeType'
    BY <1>0, <1>8, Zenon DEF CloseConn, PipeType, Places
  <2>2. ASSUME NEW c, Starting(c) PROVE Starting(c)'
    BY <1>0, <1>8, <2>2, Zenon DEF CloseConn, PipeType, Starting
  <2>3. ASSUME NEW c \in Usable' PROVE c = conn \/ Shutting(c)'
    <3>1. c \in Usable /\ c # got[k]
      BY <1>0, <1>8 DEF CloseConn, PipeType, Usable
    <3>2. ASSUME Shutting(c) PROVE Shutting(c)'
      BY <1>0, <1>8, <3>1, <3>2, Zenon DEF CloseConn, PipeType, Shutting
    <3> QED
      BY <1>0, <3>1, <3>2, Zenon
  <2> QED
    BY <1>0, <1>a, <2>1, <2>2, <2>3, Zenon
<1>9. CASE UNCHANGED pipeVars
  BY <1>9, Zenon DEF PipeInv, PipeType, WorkingIsRead, Usable, pipeVars
<1> QED
  BY <1>1, <1>2, <1>3, <1>4, <1>5, <1>6, <1>7, <1>8, <1>9, Zenon DEF PipeNext, PipeCloseStep

(* For every set of writers and closers: a connection that works is the    *)
(* pipe's own, and read or about to be, or it is being closed (Write,      *)
(* dial, reader, Close).                                                   *)
THEOREM PipeReadsItsConnection == PipeSpec => []WorkingIsRead
<1>1. PipeInit => PipeInv
  <2> SUFFICES ASSUME PipeInit PROVE PipeInv
    OBVIOUS
  <2>1. PipeType
    BY DEF PipeInit, PipeType, Places
  <2>2. WorkingIsRead
    BY DEF PipeInit, WorkingIsRead, Usable
  <2> QED
    BY <2>1, <2>2, Zenon DEF PipeInv
<1>2. PipeInv => WorkingIsRead
  BY Zenon DEF PipeInv
<1> QED
  BY <1>1, <1>2, PipeStepInv, PTL DEF PipeSpec
=============================================================================
