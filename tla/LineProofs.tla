----------------------------- MODULE LineProofs -----------------------------
(***************************************************************************)
(* The handshakes of two exchanges for every clock, every number of them   *)
(* and every number of restarts; the cipher states of a line, of CS3a and  *)
(* of CS1a, for every set of goroutines and every number of states and     *)
(* packets.                                                                *)
(***************************************************************************)
EXTENDS Handshake, CS1a, FiniteSetTheorems, TLAPS

-----------------------------------------------------------------------------
(* The handshakes                                                          *)

HandshakeTypeOK ==
  /\ seconds \in Nat
  /\ incarnation \in [Parties -> Nat \ {0}]
  /\ open \in [Parties -> BOOLEAN]
  /\ lastLocalSeq \in [Parties -> Nat]
  /\ lastRemoteSeq \in [Parties -> Nat]
  /\ nextSeq \in [Parties -> Nat]
  /\ remoteLine \in [Parties -> Nat]
  /\ net \subseteq [to : Parties, seq : Nat, line : Nat]
  /\ requests \in [Parties -> SUBSET Nat]
  /\ sends \in [Parties -> Nat]

(* The requests of an incarnation are below the number it will use next.   *)
RequestsBelow ==
  \A p \in Parties : /\ IsFiniteSet(requests[p])
                     /\ \A s \in requests[p] : s < nextSeq[p]

(* A handshake has the line of an incarnation that its sender has had.     *)
LinesWereUsed ==
  \A m \in net : m.line # 0 /\ m.line <= incarnation[Other(m.to)]

HandshakeInv ==
  /\ HandshakeTypeOK /\ RequestsBelow /\ LinesWereUsed
  /\ SeqsAreFresh /\ ResponsesAnswerRequests /\ LineIsThePeers

(* The two sides answer to each other.                                     *)
LEMMA OtherParty ==
  \A p \in Parties : Other(p) \in Parties /\ Other(Other(p)) = p /\ Other(p) # p
BY Zenon DEF Parties, Other

(* A number is of one side only (isLocalSeq).                              *)
LEMMA OneParity ==
  ASSUME NEW p \in Parties, NEW n \in Nat
  PROVE  IsLocalSeq(p, n) <=> ~IsLocalSeq(Other(p), n)
BY DEF Parties, Other, IsLocalSeq

(* getNextSeq returns a number of the side that asks, that is not zero, nor *)
(* below the one it was to use next.                                       *)
LEMMA NextSeq ==
  ASSUME HandshakeTypeOK, NEW p \in Parties
  PROVE  /\ GetNextSeq(p) \in Nat \ {0}
         /\ GetNextSeq(p) >= nextSeq[p]
         /\ IsLocalSeq(p, GetNextSeq(p))
<1> DEFINE clock == AtLeast(seconds, nextSeq[p])
           a == After(lastLocalSeq[p], clock)
           b == After(lastRemoteSeq[p], a)
           fresh == AtLeast(1, b)
<1>1. seconds \in Nat /\ nextSeq[p] \in Nat /\ lastLocalSeq[p] \in Nat /\ lastRemoteSeq[p] \in Nat
  BY Zenon DEF HandshakeTypeOK
<1>2. clock \in Nat /\ clock >= nextSeq[p]
  BY <1>1 DEF AtLeast
<1>3. a \in Nat /\ a >= clock
  BY <1>1, <1>2 DEF After
<1>4. b \in Nat /\ b >= a
  BY <1>1, <1>3 DEF After
<1>5. fresh \in Nat /\ fresh >= 1 /\ fresh >= b
  BY <1>4 DEF AtLeast
<1>6. fresh >= nextSeq[p]
  BY <1>1, <1>2, <1>3, <1>4, <1>5
<1>7. GetNextSeq(p) = IF IsLocalSeq(p, fresh) THEN fresh ELSE fresh + 1
  BY Zenon DEF GetNextSeq
<1> HIDE DEF fresh
<1>8. ~IsLocalSeq(p, fresh) => IsLocalSeq(p, fresh + 1)
  BY <1>5 DEF IsLocalSeq
<1> QED
  BY <1>1, <1>5, <1>6, <1>7, <1>8

(* At the start there are no handshakes.                                   *)
LEMMA HandshakeInitInv == HandshakeInit => HandshakeInv
<1> SUFFICES ASSUME HandshakeInit PROVE HandshakeInv
  BY Zenon
<1>1. IsFiniteSet({}) /\ Cardinality({}) = 0
  BY FS_EmptySet, Zenon
<1>2. \A p \in Parties : Other(p) \in Parties
  BY OtherParty, Zenon
<1> QED
  BY <1>1, <1>2 DEF HandshakeInit, HandshakeInv, HandshakeTypeOK, RequestsBelow, LinesWereUsed,
     SeqsAreFresh, ResponsesAnswerRequests, LineIsThePeers

(* A request has a number that was not used before, which the receiver     *)
(* does not take for its own.                                              *)
LEMMA DeliverKeeps ==
  ASSUME HandshakeInv, NEW p \in Parties, deliverHandshake(p)
  PROVE  HandshakeInv'
<1> DEFINE seq == GetNextSeq(p)
           new == Message(p, seq)
<1>1. seq \in Nat \ {0} /\ seq >= nextSeq[p] /\ IsLocalSeq(p, seq)
  BY NextSeq, Zenon DEF HandshakeInv
<1>2. /\ net' = net \cup {new}
      /\ nextSeq' = [nextSeq EXCEPT ![p] = seq + 2]
      /\ lastLocalSeq' = [lastLocalSeq EXCEPT ![p] = AtLeast(seq, @)]
      /\ requests' = [requests EXCEPT ![p] = @ \cup {seq}]
      /\ sends' = [sends EXCEPT ![p] = @ + 1]
      /\ UNCHANGED <<seconds, incarnation, open, lastRemoteSeq, remoteLine>>
  BY Zenon DEF deliverHandshake
<1>3. /\ new \in [to : Parties, seq : Nat, line : Nat]
      /\ new.to = Other(p) /\ new.seq = seq /\ new.line = incarnation[p] /\ new.line # 0
  BY <1>1, OtherParty, Zenon DEF Message, HandshakeInv, HandshakeTypeOK
<1>4. Other(new.to) = p /\ new.to \in Parties
  BY <1>3, OtherParty, Zenon
<1> HIDE DEF seq, new
<1>5. HandshakeTypeOK'
  BY <1>1, <1>2, <1>3 DEF HandshakeInv, HandshakeTypeOK, AtLeast
<1>6. IsFiniteSet(requests[p]) /\ seq \notin requests[p]
  BY <1>1 DEF HandshakeInv, HandshakeTypeOK, RequestsBelow
<1>7. IsFiniteSet(requests[p] \cup {seq}) /\ Cardinality(requests[p] \cup {seq}) = sends[p] + 1
  BY <1>6, FS_AddElement, Zenon DEF HandshakeInv, SeqsAreFresh
<1>8. RequestsBelow'
  BY <1>1, <1>2, <1>7 DEF HandshakeInv, HandshakeTypeOK, RequestsBelow
<1>9. SeqsAreFresh'
  BY <1>1, <1>2, <1>7, Zenon DEF HandshakeInv, HandshakeTypeOK, SeqsAreFresh
<1>10. LinesWereUsed'
  <2>1. new.line <= incarnation[Other(new.to)]
    BY <1>3, <1>4 DEF HandshakeInv, HandshakeTypeOK
  <2> QED
    BY <1>2, <1>3, <2>1, Zenon DEF HandshakeInv, LinesWereUsed
<1>11. ResponsesAnswerRequests'
  <2>1. ~IsLocalSeq(new.to, new.seq)
    BY <1>1, <1>3, OneParity, Zenon
  <2> QED
    BY <1>2, <2>1, Zenon DEF HandshakeInv, ResponsesAnswerRequests
<1>12. LineIsThePeers'
  BY <1>2, Zenon DEF HandshakeInv, LineIsThePeers
<1> QED
  BY <1>5, <1>8, <1>9, <1>10, <1>11, <1>12, Zenon DEF HandshakeInv

(* A response has the number, and answers the handshake, that was taken.   *)
LEMMA ApplyKeeps ==
  ASSUME HandshakeInv, NEW p \in Parties, NEW m \in net, applyHandshake(p, m),
         lastRemoteSeq' \in [Parties -> Nat]
  PROVE  HandshakeInv'
<1> DEFINE new == Message(p, m.seq)
<1>1. m \in [to : Parties, seq : Nat, line : Nat] /\ m.to = p
  BY Zenon DEF HandshakeInv, HandshakeTypeOK, applyHandshake
<1>2. /\ remoteLine' = [remoteLine EXCEPT ![p] = m.line]
      /\ open' = [open EXCEPT ![p] = TRUE]
      /\ net' = net \/ net' = net \cup {new}
      /\ lastLocalSeq' = lastLocalSeq \/ lastLocalSeq' = [lastLocalSeq EXCEPT ![p] = AtLeast(m.seq, @)]
      /\ UNCHANGED <<seconds, incarnation, nextSeq, requests, sends>>
  BY Zenon DEF applyHandshake, NewLine
<1>3. /\ new \in [to : Parties, seq : Nat, line : Nat]
      /\ new.to = Other(p) /\ new.seq = m.seq /\ new.line = incarnation[p] /\ new.line # 0
  BY <1>1, OtherParty, Zenon DEF Message, HandshakeInv, HandshakeTypeOK
<1>4. Other(new.to) = p /\ new.to \in Parties
  BY <1>3, OtherParty, Zenon
<1>5. m.line # 0 /\ m.line <= incarnation[Other(p)]
  BY <1>1, Zenon DEF HandshakeInv, LinesWereUsed
<1> HIDE DEF new
<1>6. HandshakeTypeOK'
  BY <1>1, <1>2, <1>3, Zenon DEF HandshakeInv, HandshakeTypeOK, AtLeast
<1>7. RequestsBelow' /\ SeqsAreFresh'
  BY <1>2, Zenon DEF HandshakeInv, RequestsBelow, SeqsAreFresh
<1>8. LinesWereUsed'
  <2>1. new.line <= incarnation[Other(new.to)]
    BY <1>3, <1>4 DEF HandshakeInv, HandshakeTypeOK
  <2> QED
    BY <1>2, <1>3, <2>1, Zenon DEF HandshakeInv, LinesWereUsed
<1>9. ResponsesAnswerRequests'
  <2>1. m.to = Other(new.to) /\ m.seq = new.seq /\ m.line <= incarnation[new.to]
    BY <1>1, <1>3, <1>4, <1>5, Zenon
  <2> QED
    BY <1>2, <2>1, Zenon DEF HandshakeInv, ResponsesAnswerRequests
<1>10. LineIsThePeers'
  BY <1>1, <1>2, <1>5, Zenon DEF HandshakeInv, HandshakeTypeOK, LineIsThePeers
<1> QED
  BY <1>6, <1>7, <1>8, <1>9, <1>10, Zenon DEF HandshakeInv

(* A new incarnation has used no number, and holds no line.                *)
LEMMA NewExchangeKeeps ==
  ASSUME HandshakeInv, NEW p \in Parties, newExchange(p)
  PROVE  HandshakeInv'
<1>1. IsFiniteSet({}) /\ Cardinality({}) = 0
  BY FS_EmptySet, Zenon
<1>2. /\ incarnation' \in [Parties -> Nat \ {0}]
      /\ \A q \in Parties : incarnation[q] <= incarnation'[q]
  BY DEF HandshakeInv, HandshakeTypeOK, newExchange
<1>3. HandshakeTypeOK'
  BY <1>2, Zenon DEF HandshakeInv, HandshakeTypeOK, newExchange
<1>4. RequestsBelow' /\ SeqsAreFresh'
  BY <1>1, Zenon DEF HandshakeInv, HandshakeTypeOK, newExchange, RequestsBelow, SeqsAreFresh
<1>5. \A m \in net : m.to \in Parties /\ Other(m.to) \in Parties /\ m.line \in Nat
  BY OtherParty, Zenon DEF HandshakeInv, HandshakeTypeOK
<1>6. net' = net
  BY Zenon DEF newExchange
<1>7. LinesWereUsed'
  BY <1>2, <1>5, <1>6 DEF HandshakeInv, HandshakeTypeOK, LinesWereUsed
<1>8. ResponsesAnswerRequests'
  BY <1>2, <1>5, <1>6 DEF HandshakeInv, HandshakeTypeOK, ResponsesAnswerRequests
<1>9. LineIsThePeers'
  BY <1>2, OtherParty DEF HandshakeInv, HandshakeTypeOK, LineIsThePeers, newExchange
<1> QED
  BY <1>3, <1>4, <1>7, <1>8, <1>9, Zenon DEF HandshakeInv

(* Every step keeps the invariant.                                         *)
LEMMA HandshakeStepInv == HandshakeInv /\ [HandshakeNext]_handshakeVars => HandshakeInv'
<1> SUFFICES ASSUME HandshakeInv, [HandshakeNext]_handshakeVars PROVE HandshakeInv'
  BY Zenon
<1>1. ASSUME NEW p \in Parties, deliverHandshake(p) PROVE HandshakeInv'
  BY <1>1, DeliverKeeps, Zenon
<1>2. ASSUME NEW p \in Parties, newExchange(p) PROVE HandshakeInv'
  BY <1>2, NewExchangeKeeps
<1>3. ASSUME NEW p \in Parties, NEW m \in net, receivedHandshake(p, m) PROVE HandshakeInv'
  <2>1. lastRemoteSeq' \in [Parties -> Nat]
    BY <1>3, Zenon DEF receivedHandshake, HandshakeInv, HandshakeTypeOK
  <2> QED
    BY <1>3, <2>1, ApplyKeeps, Zenon DEF receivedHandshake
<1>4. ASSUME NEW p \in Parties, NEW m \in net, OutOfBandHandshake(p, m) PROVE HandshakeInv'
  <2>1. lastRemoteSeq' \in [Parties -> Nat]
    BY <1>4, Zenon DEF OutOfBandHandshake, HandshakeInv, HandshakeTypeOK
  <2> QED
    BY <1>4, <2>1, ApplyKeeps, Zenon DEF OutOfBandHandshake
<1>5. CASE SecondPasses
  BY <1>5 DEF SecondPasses, HandshakeInv, HandshakeTypeOK, RequestsBelow, LinesWereUsed,
     SeqsAreFresh, ResponsesAnswerRequests, LineIsThePeers
<1>6. CASE UNCHANGED handshakeVars
  BY <1>6, Zenon DEF handshakeVars, HandshakeInv, HandshakeTypeOK, RequestsBelow, LinesWereUsed,
     SeqsAreFresh, ResponsesAnswerRequests, LineIsThePeers
<1> QED
  BY <1>1, <1>2, <1>3, <1>4, <1>5, <1>6, Zenon DEF HandshakeNext

(* Requests have fresh numbers of the side's parity, what is taken for a   *)
(* response answers a request, and a side holds a line its peer has used,  *)
(* however the network loses, repeats and reorders handshakes and however  *)
(* often the sides restart (exchange.go, getNextSeq, applyHandshake).      *)
THEOREM HandshakesAgree == HandshakeSpec => []HandshakesMatch
<1>1. HandshakeInv => HandshakesMatch
  BY Zenon DEF HandshakeInv, HandshakesMatch
<1> QED
  BY <1>1, HandshakeInitInv, HandshakeStepInv, PTL DEF HandshakeSpec

-----------------------------------------------------------------------------
(* The cipher states                                                       *)

Lines == {"a", "b", "c"} \X Nat
Tokens == [tokenOf : Lines]
Boxes == (SUBSET Lines) \X Lines \X Lines

CipherState ==
  [localLineKey : Lines, localToken : Tokens,
   remoteKey : Lines \cup {Unset}, remoteLineKey : Lines \cup {Unset},
   remoteToken : Tokens \cup {Unset}, macKeyBase : (SUBSET Lines) \cup {Unset},
   lineEncryptionKey : Boxes \cup {Unset}, lineDecryptionKey : Boxes \cup {Unset},
   pktNoncePrefix : Nat, pktNonceSuffix : Nat]

(* Token and keys are those of the line of the peer, or are not there when *)
(* no line is: ApplyHandshake clears them together, and update makes them  *)
(* together.                                                               *)
NoLine(s) ==
  /\ s.remoteLineKey = Unset /\ s.remoteToken = Unset
  /\ s.lineEncryptionKey = Unset /\ s.lineDecryptionKey = Unset
HasLine(s) ==
  /\ s.remoteLineKey \in Lines /\ s.remoteToken = Token(s.remoteLineKey)
  /\ s.lineEncryptionKey = <<{s.remoteLineKey, s.localLineKey}, s.localLineKey, s.remoteLineKey>>
  /\ s.lineDecryptionKey = <<{s.remoteLineKey, s.localLineKey}, s.remoteLineKey, s.localLineKey>>

StateOK(p, s, i) ==
  /\ s \in CipherState
  /\ s.localLineKey = LineKey(p, i) /\ s.localToken = Token(s.localLineKey)
  /\ s.pktNoncePrefix = i
  /\ NoLine(s) \/ HasLine(s)

StatesOK ==
  /\ made \in [Side -> Nat]
  /\ DOMAIN state = Side /\ state = [p \in Side |-> state[p]]
  /\ \A p \in Side : StateOK(p, state[p], made[p])

(* A handshake that is taken over finds no line, or its own.               *)
ApplyingOK ==
  /\ applying = [p \in Side |-> applying[p]]
  /\ \A h \in handshakes : h.lineKey \in Lines /\ h.key \in Lines
  /\ \A p \in Side : applying[p] # Unset =>
       /\ applying[p].lineKey \in Lines /\ applying[p].key \in Lines
       /\ state[p].remoteLineKey \in {Unset, applying[p].lineKey}

(* A packet was sealed with a line of its sender and a nonce of that line, *)
(* and the nonces of the state in use are counted.                         *)
SealedBy(k, q) ==
  \E i \in 1..made[q], n \in Nat :
    /\ k.key[2] = LineKey(q, i) /\ k.nonce = <<i, n>>
    /\ i = made[q] => n <= state[q].pktNonceSuffix
PacketsOK ==
  \A k \in packets : k.token = Token(k.key[3]) /\ \E q \in Side : SealedBy(k, q)

(* The nonce of a goroutine that seals is its own, and no packet has it.   *)
Seals(f, i, w, n) == f[w] = [at |-> "seal", nonce |-> <<i, n>>]
WorkersOf(p, f, i, suffix, sealed) ==
  /\ f = [w \in Workers |-> f[w]]
  /\ \A w \in Workers :
       \/ f[w] = IdleWorker
       \/ f[w].at = "open"
       \/ \E n \in 1..suffix : Seals(f, i, w, n)
  /\ \A v, w \in Workers, n \in Nat : Seals(f, i, v, n) /\ Seals(f, i, w, n) => v = w
  /\ \A w \in Workers, n \in Nat, k \in sealed :
       Seals(f, i, w, n) => k.key[2] # LineKey(p, i) \/ k.nonce # <<i, n>>
WorkersOK ==
  /\ worker = [p \in Side |-> worker[p]]
  /\ \A p \in Side : WorkersOf(p, worker[p], made[p], state[p].pktNonceSuffix, packets)

Uses == {<<k.key, k.nonce>> : k \in packets}
Counted == IsFiniteSet(Uses) /\ Cardinality(Uses) = seals

LineInv == StatesOK /\ ApplyingOK /\ PacketsOK /\ WorkersOK /\ Counted

(* The names of the keys.                                                  *)
LEMMA KeysAreLines ==
  /\ \A p \in Side : Key(p) \in Lines /\ Peer(p) \in Side
  /\ \A p \in Side, i \in Nat : LineKey(p, i) \in Lines
  /\ \A k \in Lines : k # Unset /\ Token(k) \in Tokens /\ Token(k) # Unset
  /\ Unset \notin Tokens
BY UnsetAssumption DEF Side, Peer, Key, LineKey, Lines, Token, Tokens

(* update leaves a state without a line as it is, and completes one that   *)
(* has the line key of the peer.                                           *)
LEMMA UpdateCompletes ==
  ASSUME NEW p \in Side, NEW s \in CipherState,
         \/ NoLine(s) \/ HasLine(s)
         \/ /\ s.remoteLineKey \in Lines /\ s.remoteToken = Unset
            /\ s.lineEncryptionKey = Unset /\ s.lineDecryptionKey = Unset
  PROVE  /\ Update(p, s) \in CipherState
         /\ Update(p, s).localLineKey = s.localLineKey
         /\ Update(p, s).localToken = s.localToken
         /\ Update(p, s).remoteLineKey = s.remoteLineKey
         /\ Update(p, s).remoteKey = s.remoteKey
         /\ Update(p, s).pktNoncePrefix = s.pktNoncePrefix
         /\ Update(p, s).pktNonceSuffix = s.pktNonceSuffix
         /\ NoLine(Update(p, s)) \/ HasLine(Update(p, s))
<1> DEFINE base == IF s.macKeyBase = Unset /\ s.remoteKey # Unset
                   THEN Precompute(s.remoteKey, Key(p)) ELSE s.macKeyBase
           token == IF s.remoteToken = Unset /\ s.remoteLineKey # Unset
                    THEN Token(s.remoteLineKey) ELSE s.remoteToken
           fresh == token # Unset /\ (s.lineEncryptionKey = Unset \/ s.lineDecryptionKey = Unset)
           l == s.localLineKey
           r == s.remoteLineKey
           enc == IF fresh THEN <<{r, l}, l, r>> ELSE s.lineEncryptionKey
           dec == IF fresh THEN <<{r, l}, r, l>> ELSE s.lineDecryptionKey
           u == [s EXCEPT !.macKeyBase = base, !.remoteToken = token,
                          !.lineEncryptionKey = enc, !.lineDecryptionKey = dec]
<1>1. Update(p, s) = u
  BY Zenon DEF Update, LineKeys, Precompute
<1>2. base \in (SUBSET Lines) \cup {Unset}
  BY KeysAreLines, Zenon DEF Precompute, CipherState
<1>3. l \in Lines /\ r \in Lines \cup {Unset}
  BY Zenon DEF CipherState
<1>4. token \in Tokens \cup {Unset}
  BY <1>3, KeysAreLines, Zenon DEF CipherState
<1>5. r = Unset => ~fresh /\ token = Unset
  BY <1>3, KeysAreLines, Zenon DEF NoLine, HasLine
<1>6. r \in Lines => token = Token(r) /\ enc = <<{r, l}, l, r>> /\ dec = <<{r, l}, r, l>>
  BY <1>3, KeysAreLines, Zenon DEF NoLine, HasLine
<1>7. enc \in Boxes \cup {Unset} /\ dec \in Boxes \cup {Unset}
  <2>1. CASE r \in Lines
    BY <2>1, <1>3, <1>6 DEF Boxes
  <2>2. CASE r = Unset
    BY <2>2, <1>5, Zenon DEF CipherState
  <2> QED
    BY <2>1, <2>2, <1>3, Zenon
<1>8. r = Unset => enc = Unset /\ dec = Unset
  BY <1>5, KeysAreLines, Zenon DEF NoLine, HasLine
<1> HIDE DEF base, token, fresh, enc, dec
<1>9. u \in CipherState
  BY <1>2, <1>4, <1>7, Zenon DEF CipherState
<1>10. /\ u.localLineKey = l /\ u.localToken = s.localToken /\ u.remoteLineKey = r
       /\ u.remoteKey = s.remoteKey /\ u.remoteToken = token
       /\ u.pktNoncePrefix = s.pktNoncePrefix /\ u.pktNonceSuffix = s.pktNonceSuffix
       /\ u.lineEncryptionKey = enc /\ u.lineDecryptionKey = dec
  BY Zenon DEF CipherState
<1> HIDE DEF u
<1>11. CASE r = Unset
  BY <1>1, <1>5, <1>8, <1>9, <1>10, <1>11, Zenon DEF NoLine
<1>12. CASE r \in Lines
  BY <1>1, <1>6, <1>9, <1>10, <1>12, Zenon DEF HasLine
<1> QED
  BY <1>3, <1>11, <1>12, Zenon

(* Goroutines that rest are in order.                                      *)
LEMMA IdleInOrder ==
  ASSUME NEW p, NEW f, NEW i, NEW m, NEW ks, f = [w \in Workers |-> IdleWorker]
  PROVE  WorkersOf(p, f, i, m, ks)
<1>1. \A w \in Workers : \A n : ~Seals(f, i, w, n)
  BY Zenon DEF Seals, IdleWorker
<1> QED
  BY <1>1, Zenon DEF WorkersOf

(* At the start no side has a state that it uses.                          *)
LEMMA LineInitInv == CS3aInit => LineInv
<1> SUFFICES ASSUME CS3aInit PROVE LineInv
  OBVIOUS
<1>1. \A p \in Side : StateOK(p, BlankState(p, 0), 0)
  BY KeysAreLines, Zenon DEF StateOK, BlankState, CipherState, NoLine
<1>2. StatesOK
  BY <1>1, Zenon DEF CS3aInit, StatesOK
<1>3. ApplyingOK
  BY DEF CS3aInit, ApplyingOK, Foreign, LineKey, Key, Lines
<1>4. PacketsOK
  BY Zenon DEF CS3aInit, PacketsOK
<1>7. WorkersOK
  <2>1. \A p \in Side : worker[p] = [w \in Workers |-> IdleWorker]
    BY Zenon DEF CS3aInit
  <2>2. \A p \in Side : WorkersOf(p, worker[p], made[p], state[p].pktNonceSuffix, packets)
    BY <2>1, IdleInOrder, Zenon
  <2> QED
    BY <2>2, Zenon DEF CS3aInit, WorkersOK
<1>8. Counted
  <2>1. Uses = {}
    BY Zenon DEF CS3aInit, Uses
  <2> QED
    BY <2>1, FS_EmptySet, Zenon DEF CS3aInit, Counted
<1> QED
  BY <1>2, <1>3, <1>4, <1>7, <1>8, Zenon DEF LineInv

(* A state that changes, and is still in order, with the same nonce, leaves *)
(* the packets and the goroutines in order.                                *)
LEMMA StateMayChange ==
  ASSUME LineInv, NEW p \in Side, NEW t, state' = [state EXCEPT ![p] = t],
         StateOK(p, t, made[p]), t.pktNonceSuffix = state[p].pktNonceSuffix,
         UNCHANGED <<made, worker, packets, seals>>
  PROVE  StatesOK' /\ PacketsOK' /\ WorkersOK' /\ Counted'
<1>1. StatesOK'
  BY Zenon DEF LineInv, StatesOK
<1>2. \A q \in Side : state'[q].pktNonceSuffix = state[q].pktNonceSuffix
  BY Zenon DEF LineInv, StatesOK
<1>3. PacketsOK'
  BY <1>2 DEF LineInv, PacketsOK, SealedBy
<1>4. WorkersOK'
  BY <1>2, Zenon DEF LineInv, WorkersOK
<1>5. Counted'
  BY Zenon DEF LineInv, Counted, Uses
<1> QED
  BY <1>1, <1>3, <1>4, <1>5, Zenon

(* The states, the packets and the goroutines are in order when nothing    *)
(* but handshakes change.                                                  *)
LEMMA LineStutters ==
  ASSUME LineInv, UNCHANGED <<state, made, worker, packets, seals>>
  PROVE  StatesOK' /\ PacketsOK' /\ WorkersOK' /\ Counted'
<1>1. StatesOK' /\ PacketsOK'
  BY DEF LineInv, StatesOK, PacketsOK, SealedBy
<1>2. WorkersOK'
  BY Zenon DEF LineInv, WorkersOK
<1>3. Counted'
  BY Zenon DEF LineInv, Counted, Uses
<1> QED
  BY <1>1, <1>2, <1>3, Zenon

(* NewState: no goroutine seals, and no packet has a nonce of the new line. *)
LEMMA NewStateKeeps ==
  ASSUME LineInv, NEW p \in Side, NewState(p)
  PROVE  LineInv'
<1>1. PICK k \in {Unset, Key(Peer(p))} :
        state' = [state EXCEPT ![p] =
                    Update(p, [BlankState(p, made[p] + 1) EXCEPT !.remoteKey = k])]
  BY Zenon DEF NewState
<1> DEFINE s == [BlankState(p, made[p] + 1) EXCEPT !.remoteKey = k]
           t == Update(p, s)
<1>2. /\ made' = [made EXCEPT ![p] = @ + 1]
      /\ made[p] \in Nat /\ made' \in [Side -> Nat]
      /\ applying[p] = Unset /\ RUnlocked(p)
      /\ UNCHANGED <<applying, worker, handshakes, packets, seals>>
  BY DEF NewState, LineInv, StatesOK
<1>3. s \in CipherState /\ NoLine(s) /\ s.localLineKey = LineKey(p, made[p] + 1)
      /\ s.localToken = Token(s.localLineKey) /\ s.pktNoncePrefix = made[p] + 1
  BY <1>2, KeysAreLines DEF BlankState, CipherState, NoLine
<1> HIDE DEF s
<1>4. StateOK(p, t, made[p] + 1)
  BY <1>3, UpdateCompletes, Zenon DEF StateOK
<1> HIDE DEF t
<1>5. state' = [state EXCEPT ![p] = t]
  BY <1>1, Zenon DEF s, t
<1>6. StatesOK'
  BY <1>2, <1>4, <1>5, Zenon DEF LineInv, StatesOK
<1>7. ApplyingOK'
  BY <1>2, <1>5, Zenon DEF LineInv, StatesOK, ApplyingOK
<1>8. PacketsOK'
  <2> SUFFICES ASSUME NEW j \in packets PROVE (j.token = Token(j.key[3]) /\ \E q \in Side : SealedBy(j, q))'
    BY <1>2, Zenon DEF PacketsOK
  <2>1. j.token = Token(j.key[3])
    BY Zenon DEF LineInv, PacketsOK
  <2>2. PICK q \in Side : SealedBy(j, q)
    BY Zenon DEF LineInv, PacketsOK
  <2>3. PICK i \in 1..made[q], n \in Nat :
          /\ j.key[2] = LineKey(q, i) /\ j.nonce = <<i, n>>
          /\ i = made[q] => n <= state[q].pktNonceSuffix
    BY <2>2, Zenon DEF SealedBy
  <2>4. i \in 1..made'[q]
    BY <1>2 DEF LineInv, StatesOK
  <2>5. i = made'[q] => n <= state'[q].pktNonceSuffix
    BY <1>2, <1>5, <2>3 DEF LineInv, StatesOK
  <2> QED
    BY <2>1, <2>3, <2>4, <2>5, Zenon DEF SealedBy
<1>9. WorkersOK'
  <2>1. worker[p] = [w \in Workers |-> IdleWorker]
    BY <1>2, Zenon DEF RUnlocked, LineInv, WorkersOK, WorkersOf
  <2>2. \A q \in Side : q # p => made'[q] = made[q] /\ state'[q] = state[q]
    BY <1>2, <1>5, Zenon DEF LineInv, StatesOK
  <2>3. WorkersOf(p, worker[p], made'[p], state'[p].pktNonceSuffix, packets)
    BY <2>1, IdleInOrder, Zenon
  <2>4. \A q \in Side : WorkersOf(q, worker[q], made'[q], state'[q].pktNonceSuffix, packets)
    BY <2>2, <2>3, Zenon DEF LineInv, WorkersOK
  <2> QED
    BY <1>2, <2>4, Zenon DEF LineInv, WorkersOK
<1>10. Counted'
  BY <1>2, Zenon DEF LineInv, Counted, Uses
<1> QED
  BY <1>6, <1>7, <1>8, <1>9, <1>10, Zenon DEF LineInv

(* A handshake carries the line key of its sender.                         *)
LEMMA EncryptHandshakeKeeps ==
  ASSUME LineInv, NEW p \in Side, EncryptHandshake(p)
  PROVE  LineInv'
<1>1. StatesOK' /\ PacketsOK' /\ WorkersOK' /\ Counted'
  BY LineStutters, Zenon DEF EncryptHandshake
<1>2. ApplyingOK'
  BY KeysAreLines DEF LineInv, ApplyingOK, StatesOK, StateOK, CipherState, EncryptHandshake
<1> QED
  BY <1>1, <1>2, Zenon DEF LineInv

(* ApplyHandshake clears the line that is not the handshake's.             *)
LEMMA ApplyHandshakeKeeps ==
  ASSUME LineInv, NEW p \in Side, NEW h \in handshakes, ApplyHandshake(p, h)
  PROVE  LineInv'
<1> DEFINE s == state[p]
           t == Cleared(s, h)
<1>1. /\ state' = [state EXCEPT ![p] = t]
      /\ applying' = [applying EXCEPT ![p] = h]
      /\ UNCHANGED <<made, worker, dead, handshakes, packets, seals>>
  BY Zenon DEF ApplyHandshake
<1>2. StateOK(p, s, made[p]) /\ h.lineKey \in Lines /\ h.key \in Lines
  BY Zenon DEF LineInv, StatesOK, ApplyingOK
<1>3. /\ StateOK(p, t, made[p]) /\ t.pktNonceSuffix = s.pktNonceSuffix
      /\ t.remoteLineKey \in {Unset, h.lineKey}
  BY <1>2, Zenon DEF Cleared, StateOK, CipherState, NoLine, HasLine
<1> HIDE DEF t
<1>4. StatesOK' /\ PacketsOK' /\ WorkersOK' /\ Counted'
  BY <1>1, <1>3, StateMayChange, Zenon
<1>5. ApplyingOK'
  BY <1>1, <1>2, <1>3, Zenon DEF LineInv, StatesOK, ApplyingOK
<1> QED
  BY <1>4, <1>5, Zenon DEF LineInv

(* setRemoteLineKey finds no line, and makes that of the handshake.        *)
LEMMA SetRemoteLineKeyKeeps ==
  ASSUME LineInv, NEW p \in Side, SetRemoteLineKey(p)
  PROVE  LineInv'
<1> DEFINE key == applying[p].lineKey
           s == [state[p] EXCEPT !.remoteLineKey = key]
           t == Update(p, s)
<1>1. /\ state' = [state EXCEPT ![p] = t]
      /\ UNCHANGED <<made, applying, worker, dead, handshakes, packets, seals>>
      /\ applying[p] # Unset /\ state[p].remoteLineKey # key
  BY Zenon DEF SetRemoteLineKey, LineInv, StatesOK
<1>2. StateOK(p, state[p], made[p]) /\ key \in Lines /\ state[p].remoteLineKey = Unset
  BY <1>1, Zenon DEF LineInv, StatesOK, ApplyingOK
<1>3. /\ s \in CipherState /\ s.remoteLineKey = key /\ s.remoteToken = Unset
      /\ s.lineEncryptionKey = Unset /\ s.lineDecryptionKey = Unset
      /\ s.localLineKey = LineKey(p, made[p]) /\ s.localToken = Token(s.localLineKey)
      /\ s.pktNoncePrefix = made[p] /\ s.pktNonceSuffix = state[p].pktNonceSuffix
  BY <1>2, KeysAreLines, Zenon DEF StateOK, CipherState, NoLine, HasLine
<1> HIDE DEF s
<1>4. /\ StateOK(p, t, made[p]) /\ t.pktNonceSuffix = state[p].pktNonceSuffix
      /\ t.remoteLineKey = key
  BY <1>2, <1>3, UpdateCompletes, Zenon DEF StateOK
<1> HIDE DEF t
<1>5. StatesOK' /\ PacketsOK' /\ WorkersOK' /\ Counted'
  BY <1>1, <1>4, StateMayChange, Zenon
<1>6. ApplyingOK'
  BY <1>1, <1>4, Zenon DEF LineInv, StatesOK, ApplyingOK
<1> QED
  BY <1>5, <1>6 DEF LineInv

(* SetRemoteKey leaves the line as it is.                                  *)
LEMMA SetRemoteKeyKeeps ==
  ASSUME LineInv, NEW p \in Side, SetRemoteKey(p)
  PROVE  LineInv'
<1> DEFINE s == [state[p] EXCEPT !.remoteKey = applying[p].key]
           t == IF state[p].remoteKey = Unset THEN Update(p, s) ELSE state[p]
<1>1. /\ state' = [state EXCEPT ![p] = t]
      /\ applying' = [applying EXCEPT ![p] = Unset]
      /\ UNCHANGED <<made, worker, dead, handshakes, packets, seals>>
      /\ applying[p] # Unset
  BY Zenon DEF SetRemoteKey, LineInv, StatesOK
<1>2. StateOK(p, state[p], made[p]) /\ applying[p].key \in Lines
  BY <1>1, Zenon DEF LineInv, StatesOK, ApplyingOK
<1>3. /\ s \in CipherState
      /\ NoLine(s) \/ HasLine(s)
      /\ s.localLineKey = LineKey(p, made[p]) /\ s.localToken = Token(s.localLineKey)
      /\ s.pktNoncePrefix = made[p] /\ s.pktNonceSuffix = state[p].pktNonceSuffix
  BY <1>2, Zenon DEF StateOK, CipherState, NoLine, HasLine
<1> HIDE DEF s
<1>4. StateOK(p, t, made[p]) /\ t.pktNonceSuffix = state[p].pktNonceSuffix
  <2>1. StateOK(p, Update(p, s), made[p]) /\ Update(p, s).pktNonceSuffix = state[p].pktNonceSuffix
    BY <1>3, UpdateCompletes, Zenon DEF StateOK
  <2> QED
    BY <1>2, <2>1, Zenon
<1> HIDE DEF t
<1>5. StatesOK' /\ PacketsOK' /\ WorkersOK' /\ Counted'
  BY <1>1, <1>4, StateMayChange, Zenon
<1>6. ApplyingOK'
  BY <1>1, Zenon DEF LineInv, StatesOK, ApplyingOK
<1> QED
  BY <1>5, <1>6 DEF LineInv

(* EncryptPacket takes a nonce that nobody has, and no packet.             *)
LEMMA EncryptPacketKeeps ==
  ASSUME LineInv, NEW p \in Side, NEW w \in Workers, EncryptPacket(p, w)
  PROVE  LineInv'
<1> DEFINE f == worker[p]
           i == made[p]
           m == state[p].pktNonceSuffix
           what == [at |-> "seal", nonce |-> <<i, m + 1>>]
           g == [f EXCEPT ![w] = what]
           t == [state[p] EXCEPT !.pktNonceSuffix = m + 1]
<1>1. StateOK(p, state[p], i) /\ m \in Nat /\ i \in Nat
  BY Zenon DEF LineInv, StatesOK, StateOK, CipherState
<1>2. WorkersOf(p, f, i, m, packets)
  BY Zenon DEF LineInv, WorkersOK
<1>3. /\ state' = [state EXCEPT ![p] = t]
      /\ worker' = [worker EXCEPT ![p] = g]
      /\ UNCHANGED <<made, applying, dead, handshakes, packets, seals>>
  BY <1>1, Zenon DEF EncryptPacket, TakeNonce, Does, StateOK, LineInv, StatesOK, WorkersOK
<1>4. StateOK(p, t, i) /\ t.pktNonceSuffix = m + 1 /\ t.remoteLineKey = state[p].remoteLineKey
  BY <1>1 DEF StateOK, CipherState, NoLine, HasLine
<1> HIDE DEF t
<1>5. \A q \in Side : /\ q # p => state'[q] = state[q] /\ worker'[q] = worker[q]
                      /\ q = p => state'[q] = t /\ worker'[q] = g
  BY <1>3, Zenon DEF LineInv, StatesOK, WorkersOK
<1>6. StatesOK'
  BY <1>3, <1>4, Zenon DEF LineInv, StatesOK
<1>7. ApplyingOK'
  BY <1>3, <1>4, <1>5, Zenon DEF LineInv, ApplyingOK
<1>8. PacketsOK'
  <2> SUFFICES ASSUME NEW k \in packets
               PROVE  (k.token = Token(k.key[3]) /\ \E q \in Side : SealedBy(k, q))'
    BY <1>3, Zenon DEF PacketsOK
  <2>1. PICK q \in Side : SealedBy(k, q)
    BY Zenon DEF LineInv, PacketsOK
  <2>2. PICK j \in 1..made[q], n \in Nat :
          /\ k.key[2] = LineKey(q, j) /\ k.nonce = <<j, n>>
          /\ j = made[q] => n <= state[q].pktNonceSuffix
    BY <2>1, Zenon DEF SealedBy
  <2>3. j = made'[q] => n <= state'[q].pktNonceSuffix
    BY <2>2, <1>1, <1>3, <1>4, <1>5
  <2> QED
    BY <1>3, <2>2, <2>3, Zenon DEF SealedBy, LineInv, PacketsOK
<1>9. WorkersOf(p, g, i, m + 1, packets)
  <2>1. g = [v \in Workers |-> IF v = w THEN what ELSE f[v]]
    BY <1>2, Zenon DEF WorkersOf
  <2>2. \A v \in Workers, n \in Nat : v # w => (Seals(g, i, v, n) <=> Seals(f, i, v, n))
    BY <2>1, Zenon DEF Seals
  <2>3. \A n \in Nat : Seals(g, i, w, n) <=> n = m + 1
    BY <2>1, <1>1, Zenon DEF Seals
  <2>4. \A v \in Workers, n \in Nat : Seals(f, i, v, n) => n <= m
    <3> SUFFICES ASSUME NEW v \in Workers, NEW n \in Nat, Seals(f, i, v, n) PROVE n <= m
      BY Zenon
    <3>1. f[v] # IdleWorker /\ f[v].at # "open"
      BY DEF Seals, IdleWorker
    <3>2. PICK l \in 1..m : Seals(f, i, v, l)
      BY <1>2, <3>1, Zenon DEF WorkersOf
    <3> QED
      BY <3>2, <1>1 DEF Seals
  <2>5. \A v \in Workers :
          \/ g[v] = IdleWorker \/ g[v].at = "open" \/ \E n \in 1..(m + 1) : Seals(g, i, v, n)
    <3> SUFFICES ASSUME NEW v \in Workers, g[v] # IdleWorker, g[v].at # "open"
                 PROVE  \E n \in 1..(m + 1) : Seals(g, i, v, n)
      BY Zenon
    <3>1. CASE v = w
      BY <3>1, <2>3, <1>1
    <3>2. CASE v # w
      <4>1. PICK n \in 1..m : Seals(f, i, v, n)
        BY <3>2, <2>1, <1>2, Zenon DEF WorkersOf
      <4> QED
        BY <4>1, <3>2, <2>2, <1>1
    <3> QED
      BY <3>1, <3>2, Zenon
  <2>6. \A v, u \in Workers, n \in Nat : Seals(g, i, v, n) /\ Seals(g, i, u, n) => v = u
    <3> SUFFICES ASSUME NEW v \in Workers, NEW u \in Workers, NEW n \in Nat,
                        Seals(g, i, v, n), Seals(g, i, u, n)
                 PROVE  v = u
      BY Zenon
    <3>1. CASE v # w /\ u # w
      BY <3>1, <2>2, <1>2, Zenon DEF WorkersOf
    <3>2. CASE v = w /\ u # w
      BY <3>2, <2>2, <2>3, <2>4, <1>1
    <3>3. CASE v # w /\ u = w
      BY <3>3, <2>2, <2>3, <2>4, <1>1
    <3> QED
      BY <3>1, <3>2, <3>3, Zenon
  <2>7. \A k \in packets : k.key[2] # LineKey(p, i) \/ k.nonce # <<i, m + 1>>
    <3> SUFFICES ASSUME NEW k \in packets, k.key[2] = LineKey(p, i) PROVE k.nonce # <<i, m + 1>>
      BY Zenon
    <3>1. PICK q \in Side : SealedBy(k, q)
      BY Zenon DEF LineInv, PacketsOK
    <3>2. PICK j \in 1..made[q], n \in Nat :
            /\ k.key[2] = LineKey(q, j) /\ k.nonce = <<j, n>>
            /\ j = made[q] => n <= state[q].pktNonceSuffix
      BY <3>1, Zenon DEF SealedBy
    <3>3. q = p /\ j = i
      BY <3>2 DEF LineKey
    <3> QED
      BY <3>2, <3>3, <1>1
  <2>8. \A v \in Workers, n \in Nat, k \in packets :
          Seals(g, i, v, n) => k.key[2] # LineKey(p, i) \/ k.nonce # <<i, n>>
    BY <2>2, <2>3, <2>7, <1>2, Zenon DEF WorkersOf
  <2> QED
    BY <2>1, <2>5, <2>6, <2>8, Zenon DEF WorkersOf
<1>10. WorkersOK'
  <2> HIDE DEF g, m, i
  <2>1. \A q \in Side : WorkersOf(q, worker'[q], made'[q], state'[q].pktNonceSuffix, packets)
    BY <1>3, <1>4, <1>5, <1>9, Zenon DEF LineInv, WorkersOK, i
  <2>2. worker' = [q \in Side |-> worker'[q]]
    BY <1>3, Zenon DEF LineInv, WorkersOK
  <2> QED
    BY <1>3, <2>1, <2>2, Zenon DEF WorkersOK
<1>11. Counted'
  BY <1>3, Zenon DEF LineInv, Counted, Uses
<1> QED
  BY <1>6, <1>7, <1>8, <1>10, <1>11, Zenon DEF LineInv

(* A goroutine that does not seal, or no longer, leaves the others in order. *)
LEMMA RestInOrder ==
  ASSUME NEW p, NEW f, NEW i, NEW m, NEW ks, WorkersOf(p, f, i, m, ks), NEW w \in Workers,
         NEW x, x = IdleWorker \/ x.at = "open"
  PROVE  /\ WorkersOf(p, [f EXCEPT ![w] = x], i, m, ks)
         /\ \A v \in Workers : \A n : Seals([f EXCEPT ![w] = x], i, v, n) => v # w /\ Seals(f, i, v, n)
<1> DEFINE g == [f EXCEPT ![w] = x]
<1>1. g = [v \in Workers |-> IF v = w THEN x ELSE f[v]]
  BY Zenon DEF WorkersOf
<1>2. \A n : ~Seals(g, i, w, n)
  BY <1>1 DEF Seals, IdleWorker
<1>3. \A v \in Workers : \A n : v # w => (Seals(g, i, v, n) <=> Seals(f, i, v, n))
  BY <1>1, Zenon DEF Seals
<1>4. \A v \in Workers : g[v] = IdleWorker \/ g[v].at = "open" \/ \E n \in 1..m : Seals(g, i, v, n)
  BY <1>1, <1>3, Zenon DEF WorkersOf
<1> HIDE DEF g
<1>5. \A v, u \in Workers, n \in Nat : Seals(g, i, v, n) /\ Seals(g, i, u, n) => v = u
  BY <1>2, <1>3 DEF WorkersOf
<1>6. \A v \in Workers, n \in Nat, k \in ks :
        Seals(g, i, v, n) => k.key[2] # LineKey(p, i) \/ k.nonce # <<i, n>>
  BY <1>2, <1>3 DEF WorkersOf
<1>7. g = [v \in Workers |-> g[v]]
  BY <1>1, Zenon
<1>8. WorkersOf(p, g, i, m, ks)
  BY <1>4, <1>5, <1>6, <1>7, Zenon DEF WorkersOf
<1> QED
  BY <1>2, <1>3, <1>8, Zenon DEF g

(* The goroutines of one side change, and those of the other do not.       *)
LEMMA WorkersMayChange ==
  ASSUME LineInv, NEW p \in Side, NEW g, worker' = [worker EXCEPT ![p] = g],
         WorkersOf(p, g, made[p], state[p].pktNonceSuffix, packets),
         UNCHANGED <<state, made, packets>>
  PROVE  WorkersOK'
<1>1. \A q \in Side : WorkersOf(q, worker'[q], made[q], state[q].pktNonceSuffix, packets)
  BY Zenon DEF LineInv, WorkersOK
<1>2. worker' = [q \in Side |-> worker'[q]]
  BY Zenon DEF LineInv, WorkersOK
<1> QED
  BY <1>1, <1>2, Zenon DEF WorkersOK

(* A panic ends every goroutine of the side.                               *)
LEMMA PanicKeeps ==
  ASSUME LineInv, NEW p \in Side, Panic(p),
         UNCHANGED <<state, made, handshakes, packets, seals>>
  PROVE  LineInv'
<1>1. WorkersOf(p, [w \in Workers |-> IdleWorker], made[p], state[p].pktNonceSuffix, packets)
  BY IdleInOrder, Zenon
<1>2. WorkersOK'
  BY <1>1, WorkersMayChange, Zenon DEF Panic
<1>3. ApplyingOK'
  BY Zenon DEF LineInv, ApplyingOK, Panic
<1>4. StatesOK' /\ PacketsOK' /\ Counted'
  BY DEF LineInv, StatesOK, PacketsOK, SealedBy, Counted, Uses
<1> QED
  BY <1>2, <1>3, <1>4, Zenon DEF LineInv

(* What is sealed has the token of the line of the key, and a nonce that    *)
(* was not used with it.                                                   *)
LEMMA SealKeeps ==
  ASSUME LineInv, NEW p \in Side, NEW w \in Workers, Seal(p, w)
  PROVE  LineInv'
<1> DEFINE s == state[p]
           f == worker[p]
           i == made[p]
           m == state[p].pktNonceSuffix
           g == [f EXCEPT ![w] = IdleWorker]
           new == [token |-> s.remoteToken, nonce |-> f[w].nonce, key |-> s.lineEncryptionKey]
<1>1. StateOK(p, s, i) /\ i \in Nat /\ WorkersOf(p, f, i, m, packets) /\ m \in Nat
  BY Zenon DEF LineInv, StatesOK, WorkersOK, StateOK, CipherState
<1>2. CASE ~CanEncryptPacket(s)
  BY <1>2, PanicKeeps, Zenon DEF Seal
<1>3. CASE CanEncryptPacket(s)
  <2>1. /\ packets' = packets \cup {new} /\ seals' = seals + 1
        /\ worker' = [worker EXCEPT ![p] = g]
        /\ UNCHANGED <<dead, applying, state, made, handshakes>>
        /\ made[p] > 0 /\ f[w].at = "seal"
    BY <1>3, Zenon DEF Seal, Does, Runs, LineInv, WorkersOK
  <2>2. PICK n \in 1..m : Seals(f, i, w, n)
    BY <1>1, <2>1 DEF WorkersOf, IdleWorker
  <2>3. /\ new.token = Token(new.key[3]) /\ new.key[2] = LineKey(p, i)
        /\ new.nonce = <<i, n>>
    <3>1. HasLine(s)
      BY <1>1, <1>3, Zenon DEF StateOK, CanEncryptPacket, NoLine
    <3>2. s.localLineKey = LineKey(p, i)
      BY <1>1, Zenon DEF StateOK
    <3>3. f[w].nonce = <<i, n>>
      BY <2>2 DEF Seals
    <3> QED
      BY <3>1, <3>2, <3>3 DEF HasLine
  <2> HIDE DEF new
  <2>4. StatesOK' /\ ApplyingOK'
    BY <2>1, Zenon DEF LineInv, StatesOK, ApplyingOK
  <2>5. PacketsOK'
    <3>1. SealedBy(new, p)
      BY <1>1, <2>1, <2>3 DEF SealedBy
    <3>2. \A k \in packets \cup {new} : k.token = Token(k.key[3]) /\ \E q \in Side : SealedBy(k, q)
      BY <2>3, <3>1, Zenon DEF LineInv, PacketsOK
    <3> QED
      BY <2>1, <3>2 DEF PacketsOK, SealedBy
  <2>6. WorkersOf(p, g, i, m, packets) /\ \A v \in Workers : \A l : Seals(g, i, v, l) => v # w /\ Seals(f, i, v, l)
    BY <1>1, RestInOrder, Zenon
  <2>7. WorkersOf(p, g, i, m, packets')
    <3>1. \A v \in Workers, l \in Nat : Seals(g, i, v, l) => new.nonce # <<i, l>>
      <4> SUFFICES ASSUME NEW v \in Workers, NEW l \in Nat, Seals(g, i, v, l), l = n PROVE FALSE
        BY <2>3
      <4> QED
        BY <1>1, <2>2, <2>6, Zenon DEF WorkersOf
    <3> HIDE DEF g, i, m
    <3>2. \A v \in Workers, l \in Nat, k \in packets' :
            Seals(g, i, v, l) => k.key[2] # LineKey(p, i) \/ k.nonce # <<i, l>>
      BY <2>1, <2>6, <3>1, Zenon DEF WorkersOf
    <3> QED
      BY <2>6, <3>2, Zenon DEF WorkersOf
  <2>8. ASSUME NEW q \in Side, q # p
        PROVE  WorkersOf(q, worker[q], made[q], state[q].pktNonceSuffix, packets')
    <3>1. new.key[2] # LineKey(q, made[q])
      BY <2>3, <2>8 DEF LineKey
    <3>2. WorkersOf(q, worker[q], made[q], state[q].pktNonceSuffix, packets)
      BY Zenon DEF LineInv, WorkersOK
    <3> QED
      BY <2>1, <3>1, <3>2, Zenon DEF WorkersOf
  <2>9. WorkersOK'
    <3>1. worker' = [q \in Side |-> worker'[q]]
      BY <2>1, Zenon DEF LineInv, WorkersOK
    <3>2. \A q \in Side : IF q = p THEN worker'[q] = g ELSE worker'[q] = worker[q]
      BY <2>1, Zenon DEF LineInv, WorkersOK
    <3> HIDE DEF g
    <3>3. \A q \in Side : WorkersOf(q, worker'[q], made[q], state[q].pktNonceSuffix, packets')
      BY <2>7, <2>8, <3>2, Zenon
    <3> QED
      BY <2>1, <3>1, <3>3, Zenon DEF WorkersOK
  <2>10. Counted'
    <3>1. Uses' = Uses \cup {<<new.key, new.nonce>>}
      BY <2>1, Zenon DEF Uses
    <3>2. <<new.key, new.nonce>> \notin Uses
      <4> SUFFICES ASSUME NEW k \in packets, k.key = new.key, k.nonce = new.nonce PROVE FALSE
        BY Zenon DEF Uses
      <4>1. k.key[2] = LineKey(p, i) /\ k.nonce = <<i, n>>
        BY <2>3, Zenon
      <4> QED
        BY <4>1, <1>1, <2>2 DEF WorkersOf
    <3>3. seals = Cardinality(Uses) /\ IsFiniteSet(Uses)
      BY Zenon DEF LineInv, Counted
    <3> QED
      BY <2>1, <3>1, <3>2, <3>3, FS_AddElement, Zenon DEF Counted
  <2> QED
    BY <2>4, <2>5, <2>9, <2>10, Zenon DEF LineInv
<1> QED
  BY <1>2, <1>3, Zenon

(* To open a packet changes nothing but the goroutine.                     *)
LEMMA OpenKeeps ==
  ASSUME LineInv, NEW p \in Side, NEW w \in Workers,
         Open(p, w) \/ \E k \in packets : DecryptPacket(p, w, k)
  PROVE  LineInv'
<1>1. CASE Panic(p) /\ UNCHANGED <<state, made, handshakes, packets, seals>>
  BY <1>1, PanicKeeps, Zenon
<1>2. ASSUME NEW x, x = IdleWorker \/ x.at = "open", Does(p, w, x),
             UNCHANGED <<state, made, applying, dead, handshakes, packets, seals>>
      PROVE  LineInv'
  <2>1. worker' = [worker EXCEPT ![p] = [worker[p] EXCEPT ![w] = x]]
    BY <1>2, Zenon DEF Does, LineInv, WorkersOK
  <2>2. WorkersOf(p, [worker[p] EXCEPT ![w] = x], made[p], state[p].pktNonceSuffix, packets)
    BY <1>2, RestInOrder, Zenon DEF LineInv, WorkersOK
  <2>3. WorkersOK'
    BY <1>2, <2>1, <2>2, WorkersMayChange, Zenon
  <2>4. StatesOK' /\ ApplyingOK' /\ PacketsOK' /\ Counted'
    BY <1>2 DEF LineInv, StatesOK, ApplyingOK, PacketsOK, SealedBy, Counted, Uses
  <2> QED
    BY <2>3, <2>4, Zenon DEF LineInv
<1>3. CASE Open(p, w)
  BY <1>1, <1>2, <1>3, Zenon DEF Open
<1>4. ASSUME NEW k \in packets, DecryptPacket(p, w, k) PROVE LineInv'
  <2>1. [at |-> "open", packet |-> k].at = "open"
    BY Zenon
  <2> QED
    BY <1>2, <1>4, <2>1, Zenon DEF DecryptPacket
<1> QED
  BY <1>3, <1>4, Zenon

(* Every step keeps the invariant.                                         *)
LEMMA LineStepInv == LineInv /\ [CS3aNext]_cs3aVars => LineInv'
<1> SUFFICES ASSUME LineInv, [CS3aNext]_cs3aVars PROVE LineInv'
  OBVIOUS
<1>1. CASE UNCHANGED cs3aVars
  BY <1>1 DEF cs3aVars, LineInv, StatesOK, ApplyingOK, PacketsOK, SealedBy, WorkersOK, Counted, Uses
<1>2. ASSUME NEW p \in Side,
             NewState(p) \/ EncryptHandshake(p) \/ SetRemoteLineKey(p) \/ SetRemoteKey(p)
      PROVE  LineInv'
  BY <1>2, NewStateKeeps, EncryptHandshakeKeeps, SetRemoteLineKeyKeeps, SetRemoteKeyKeeps, Zenon
<1>3. ASSUME NEW p \in Side, NEW h \in handshakes, ApplyHandshake(p, h) PROVE LineInv'
  BY <1>3, ApplyHandshakeKeeps, Zenon
<1>4. ASSUME NEW p \in Side, NEW w \in Workers, EncryptPacket(p, w) PROVE LineInv'
  BY <1>4, EncryptPacketKeeps, Zenon
<1>5. ASSUME NEW p \in Side, NEW w \in Workers, Seal(p, w) PROVE LineInv'
  BY <1>5, SealKeeps
<1>6. ASSUME NEW p \in Side, NEW w \in Workers,
             Open(p, w) \/ \E k \in packets : DecryptPacket(p, w, k)
      PROVE  LineInv'
  BY <1>6, OpenKeeps, Zenon
<1> QED
  BY <1>1, <1>2, <1>3, <1>4, <1>5, <1>6, Zenon DEF CS3aNext

(* Sides that hold each other's line have the same keys, crosswise.        *)
LEMMA LineInvImplies == LineInv => LinesAreSound
<1> SUFFICES ASSUME LineInv PROVE LinesAreSound
  BY Zenon
<1>1. PacketsAreOfOneLine
  BY Zenon DEF LineInv, PacketsOK, PacketsAreOfOneLine
<1>2. NoncesAreUnique
  BY Zenon DEF LineInv, Counted, Uses, NoncesAreUnique
<1>3. LineKeysAgree
  <2> DEFINE a == state["a"]
             b == state["b"]
  <2>1. StateOK("a", a, made["a"]) /\ StateOK("b", b, made["b"])
        /\ made["a"] \in Nat /\ made["b"] \in Nat
    BY Zenon DEF LineInv, StatesOK, Side
  <2>2. a.localLineKey \in Lines /\ b.localLineKey \in Lines
    BY <2>1, Zenon DEF StateOK, CipherState
  <2> SUFFICES ASSUME a.remoteLineKey = b.localLineKey, b.remoteLineKey = a.localLineKey
               PROVE  /\ a.lineEncryptionKey = b.lineDecryptionKey
                      /\ b.lineEncryptionKey = a.lineDecryptionKey
                      /\ a.remoteToken = b.localToken /\ b.remoteToken = a.localToken
    BY Zenon DEF LineKeysAgree
  <2>3. HasLine(a) /\ HasLine(b)
    BY <2>1, <2>2, KeysAreLines, Zenon DEF StateOK, NoLine
  <2>4. {a.localLineKey, b.localLineKey} = {b.localLineKey, a.localLineKey}
    BY Zenon
  <2> QED
    BY <2>1, <2>3, <2>4, Zenon DEF StateOK, HasLine
<1> QED
  BY <1>1, <1>2, <1>3, Zenon DEF LinesAreSound

(* Sides that hold each other's line encrypt and decrypt alike, a packet    *)
(* carries the token of the line whose key sealed it, and no two packets    *)
(* have one key and one nonce, however many goroutines seal while           *)
(* handshakes are taken over (cs3a_cipher.go, update, EncryptPacket,        *)
(* ApplyHandshake).                                                        *)
THEOREM LinesAgree == CS3aSpec => []LinesAreSound
BY LineInitInv, LineStepInv, LineInvImplies, PTL DEF CS3aSpec

-----------------------------------------------------------------------------
(* The cipher states of CS1a                                               *)

Folded == [fold : Boxes]

CipherState1a ==
  [localLineKey : Lines, localToken : Tokens,
   remoteKey : Lines \cup {Unset}, remoteLineKey : Lines \cup {Unset},
   remoteToken : Tokens \cup {Unset},
   lineEncryptionKey : Folded \cup {Unset}, lineDecryptionKey : Folded \cup {Unset}]

HasLine1a(s) ==
  /\ s.remoteLineKey \in Lines /\ s.remoteToken = Token(s.remoteLineKey)
  /\ s.lineEncryptionKey
       = Fold(<<{s.remoteLineKey, s.localLineKey}, s.localLineKey, s.remoteLineKey>>)
  /\ s.lineDecryptionKey
       = Fold(<<{s.remoteLineKey, s.localLineKey}, s.remoteLineKey, s.localLineKey>>)

StateOK1a(s) ==
  /\ s \in CipherState1a
  /\ s.localToken = Token(s.localLineKey)
  /\ NoLine(s) \/ HasLine1a(s)

StatesOK1a ==
  /\ made1a \in [Side -> Nat]
  /\ state1a = [p \in Side |-> state1a[p]]
  /\ \A p \in Side : StateOK1a(state1a[p])

(* A handshake that is taken over finds no line, or its own.               *)
ApplyingOK1a ==
  /\ applying1a = [p \in Side |-> applying1a[p]]
  /\ \A h \in net1a : h.lineKey \in Lines /\ h.key \in Lines
  /\ \A p \in Side : applying1a[p] # Unset =>
       /\ applying1a[p].lineKey \in Lines /\ applying1a[p].key \in Lines
       /\ state1a[p].remoteLineKey \in {Unset, applying1a[p].lineKey}

(* Token and key of a packet, and of one that is being signed, are of one  *)
(* line.                                                                   *)
OneLine(k) == k.token = Token(k.key.fold[3])
WorkersOK1a ==
  /\ worker1a = [p \in Side |-> worker1a[p]]
  /\ \A p \in Side : worker1a[p] = [w \in Workers1a |-> worker1a[p][w]]
  /\ \A p \in Side, w \in Workers1a : worker1a[p][w].at = "sign" => OneLine(worker1a[p][w])
PacketsOK1a == \A k \in packets1a : OneLine(k)

LineInv1a == StatesOK1a /\ ApplyingOK1a /\ WorkersOK1a /\ PacketsOK1a

(* update leaves a state without a line as it is, and completes one that   *)
(* has the line key of the peer.                                           *)
LEMMA UpdateCompletes1a ==
  ASSUME NEW s \in CipherState1a,
         \/ NoLine(s) \/ HasLine1a(s)
         \/ /\ s.remoteLineKey \in Lines /\ s.remoteToken = Unset
            /\ s.lineEncryptionKey = Unset /\ s.lineDecryptionKey = Unset
  PROVE  /\ Update1a(s) \in CipherState1a
         /\ Update1a(s).localLineKey = s.localLineKey
         /\ Update1a(s).localToken = s.localToken
         /\ Update1a(s).remoteLineKey = s.remoteLineKey
         /\ NoLine(Update1a(s)) \/ HasLine1a(Update1a(s))
<1> DEFINE token == IF s.remoteToken = Unset /\ s.remoteLineKey # Unset
                    THEN Token(s.remoteLineKey) ELSE s.remoteToken
           fresh == token # Unset /\ (s.lineEncryptionKey = Unset \/ s.lineDecryptionKey = Unset)
           l == s.localLineKey
           r == s.remoteLineKey
           enc == IF fresh THEN Fold(<<{r, l}, l, r>>) ELSE s.lineEncryptionKey
           dec == IF fresh THEN Fold(<<{r, l}, r, l>>) ELSE s.lineDecryptionKey
           u == [s EXCEPT !.remoteToken = token,
                          !.lineEncryptionKey = enc, !.lineDecryptionKey = dec]
<1>1. Update1a(s) = u
  BY Zenon DEF Update1a, LineKeys1a, ComputeShared
<1>3. l \in Lines /\ r \in Lines \cup {Unset}
  BY Zenon DEF CipherState1a
<1>4. token \in Tokens \cup {Unset}
  BY <1>3, KeysAreLines, Zenon DEF CipherState1a
<1>5. r = Unset => ~fresh /\ token = Unset
  BY <1>3, KeysAreLines, Zenon DEF NoLine, HasLine1a
<1>6. r \in Lines => /\ token = Token(r)
                     /\ enc = Fold(<<{r, l}, l, r>>) /\ dec = Fold(<<{r, l}, r, l>>)
  BY <1>3, KeysAreLines, Zenon DEF NoLine, HasLine1a
<1>7. enc \in Folded \cup {Unset} /\ dec \in Folded \cup {Unset}
  <2>1. CASE r \in Lines
    <3>1. <<{r, l}, l, r>> \in Boxes /\ <<{r, l}, r, l>> \in Boxes
      BY <2>1, <1>3 DEF Boxes
    <3> QED
      BY <2>1, <3>1, <1>6 DEF Folded, Fold
  <2>2. CASE r = Unset
    BY <2>2, <1>5, Zenon DEF CipherState1a
  <2> QED
    BY <2>1, <2>2, <1>3, Zenon
<1>8. r = Unset => enc = Unset /\ dec = Unset
  BY <1>5, KeysAreLines, Zenon DEF NoLine, HasLine1a
<1> HIDE DEF token, fresh, enc, dec
<1>9. u \in CipherState1a
  BY <1>4, <1>7, Zenon DEF CipherState1a
<1>10. /\ u.localLineKey = l /\ u.localToken = s.localToken /\ u.remoteLineKey = r
       /\ u.remoteToken = token /\ u.lineEncryptionKey = enc /\ u.lineDecryptionKey = dec
  BY Zenon DEF CipherState1a
<1> HIDE DEF u
<1>11. CASE r = Unset
  BY <1>1, <1>5, <1>8, <1>9, <1>10, <1>11, Zenon DEF NoLine
<1>12. CASE r \in Lines
  BY <1>1, <1>6, <1>9, <1>10, <1>12, Zenon DEF HasLine1a
<1> QED
  BY <1>3, <1>11, <1>12, Zenon

(* At the start no side has a line, and no goroutine seals.                *)
LEMMA LineInitInv1a == CS1aInit => LineInv1a
<1> SUFFICES ASSUME CS1aInit PROVE LineInv1a
  OBVIOUS
<1>1. \A p \in Side : StateOK1a(BlankState1a(p, 0))
  BY KeysAreLines, Zenon DEF StateOK1a, BlankState1a, CipherState1a, NoLine
<1>2. StatesOK1a
  BY <1>1, Zenon DEF CS1aInit, StatesOK1a
<1>3. ApplyingOK1a
  BY Zenon DEF CS1aInit, ApplyingOK1a
<1>4. WorkersOK1a
  BY Zenon DEF CS1aInit, WorkersOK1a, IdleWorker
<1>5. PacketsOK1a
  BY Zenon DEF CS1aInit, PacketsOK1a
<1> QED
  BY <1>2, <1>3, <1>4, <1>5, Zenon DEF LineInv1a

(* A goroutine that signs nothing, or a packet of one line, leaves the     *)
(* goroutines in order.                                                    *)
LEMMA WorkerMayChange ==
  ASSUME WorkersOK1a, NEW p \in Side, NEW w \in Workers1a, NEW what,
         what.at = "sign" => OneLine(what), Does1a(p, w, what)
  PROVE  WorkersOK1a'
<1>1. worker1a' = [worker1a EXCEPT ![p] = [worker1a[p] EXCEPT ![w] = what]]
  BY Zenon DEF Does1a, WorkersOK1a
<1>2. \A q \in Side : worker1a'[q] = IF q = p THEN [worker1a[p] EXCEPT ![w] = what] ELSE worker1a[q]
  BY <1>1, Zenon DEF WorkersOK1a
<1>3. \A q \in Side : worker1a'[q] = [v \in Workers1a |-> worker1a'[q][v]]
  BY <1>2, Zenon DEF WorkersOK1a
<1>4. ASSUME NEW q \in Side, NEW v \in Workers1a, worker1a'[q][v].at = "sign"
      PROVE  OneLine(worker1a'[q][v])
  <2>1. CASE q = p /\ v = w
    BY <1>2, <1>4, <2>1, Zenon DEF WorkersOK1a
  <2>2. CASE ~(q = p /\ v = w)
    <3>1. worker1a'[q][v] = worker1a[q][v]
      BY <1>2, <2>2, Zenon DEF WorkersOK1a
    <3> QED
      BY <1>4, <3>1, Zenon DEF WorkersOK1a
  <2> QED
    BY <2>1, <2>2, Zenon
<1>5. worker1a' = [q \in Side |-> worker1a'[q]]
  BY <1>1, Zenon DEF WorkersOK1a
<1>6. \A q \in Side, v \in Workers1a :
        worker1a'[q][v].at = "sign" => OneLine(worker1a'[q][v])
  BY <1>4, Zenon
<1> QED
  BY <1>3, <1>5, <1>6, Zenon DEF WorkersOK1a, OneLine

(* The states change one at a time, and stay in order.                     *)
LEMMA StateMayChange1a ==
  ASSUME StatesOK1a, NEW p \in Side, NEW t, state1a' = [state1a EXCEPT ![p] = t],
         StateOK1a(t), made1a' \in [Side -> Nat]
  PROVE  StatesOK1a'
BY Zenon DEF StatesOK1a

(* The states and the packets are in order when they do not change.        *)
LEMMA LineStutters1a ==
  /\ StatesOK1a /\ UNCHANGED <<state1a, made1a>> => StatesOK1a'
  /\ ApplyingOK1a /\ UNCHANGED <<state1a, applying1a, net1a>> => ApplyingOK1a'
  /\ WorkersOK1a /\ UNCHANGED worker1a => WorkersOK1a'
  /\ PacketsOK1a /\ UNCHANGED packets1a => PacketsOK1a'
BY Zenon DEF StatesOK1a, ApplyingOK1a, WorkersOK1a, PacketsOK1a

(* NewState makes a state with no line, when no handshake is taken over.   *)
LEMMA NewStateKeeps1a ==
  ASSUME LineInv1a, NEW p \in Side, NewState1a(p)
  PROVE  LineInv1a'
<1>1. PICK k \in {Unset, Key(Peer(p))} :
        state1a' = [state1a EXCEPT ![p] =
                      Update1a([BlankState1a(p, made1a[p] + 1) EXCEPT !.remoteKey = k])]
  BY Zenon DEF NewState1a
<1> DEFINE s == [BlankState1a(p, made1a[p] + 1) EXCEPT !.remoteKey = k]
           t == Update1a(s)
<1>2. /\ made1a' \in [Side -> Nat] /\ made1a[p] + 1 \in Nat
      /\ applying1a[p] = Unset
      /\ UNCHANGED <<applying1a, worker1a, net1a, packets1a>>
  BY DEF NewState1a, LineInv1a, StatesOK1a
<1>3. s \in CipherState1a /\ NoLine(s) /\ s.localToken = Token(s.localLineKey)
  BY <1>2, KeysAreLines DEF BlankState1a, CipherState1a, NoLine
<1> HIDE DEF s
<1>4. StateOK1a(t)
  BY <1>3, UpdateCompletes1a, Zenon DEF StateOK1a
<1>5. state1a' = [state1a EXCEPT ![p] = t]
  BY <1>1, Zenon DEF s
<1> HIDE DEF t
<1>6. StatesOK1a'
  BY <1>2, <1>4, <1>5, StateMayChange1a, Zenon DEF LineInv1a
<1>7. ApplyingOK1a'
  BY <1>2, <1>5, Zenon DEF LineInv1a, StatesOK1a, ApplyingOK1a
<1> QED
  BY <1>2, <1>6, <1>7, LineStutters1a, Zenon DEF LineInv1a

(* A handshake carries the line key of its sender.                         *)
LEMMA EncryptHandshakeKeeps1a ==
  ASSUME LineInv1a, NEW p \in Side, EncryptHandshake1a(p)
  PROVE  LineInv1a'
<1>1. state1a[p].localLineKey \in Lines /\ Key(p) \in Lines
  BY KeysAreLines, Zenon DEF LineInv1a, StatesOK1a, StateOK1a, CipherState1a
<1>2. \A h \in net1a' : h \in net1a \/ (h.lineKey = state1a[p].localLineKey /\ h.key = Key(p))
  BY DEF EncryptHandshake1a
<1>3. UNCHANGED <<state1a, made1a, applying1a, worker1a, packets1a>>
  BY Zenon DEF EncryptHandshake1a
<1>4. ApplyingOK1a'
  BY <1>1, <1>2, <1>3, Zenon DEF LineInv1a, ApplyingOK1a
<1> QED
  BY <1>3, <1>4, LineStutters1a, Zenon DEF LineInv1a

(* ApplyHandshake clears the line that is not the handshake's.             *)
LEMMA ApplyHandshakeKeeps1a ==
  ASSUME LineInv1a, NEW p \in Side, NEW h \in net1a, ApplyHandshake1a(p, h)
  PROVE  LineInv1a'
<1> DEFINE s == state1a[p]
           t == Cleared1a(s, h)
<1>1. /\ state1a' = [state1a EXCEPT ![p] = t]
      /\ applying1a' = [applying1a EXCEPT ![p] = h]
      /\ UNCHANGED <<made1a, worker1a, net1a, packets1a>>
  BY Zenon DEF ApplyHandshake1a
<1>2. StateOK1a(s) /\ h.lineKey \in Lines /\ h.key \in Lines
  BY Zenon DEF LineInv1a, StatesOK1a, ApplyingOK1a
<1>3. StateOK1a(t) /\ t.remoteLineKey \in {Unset, h.lineKey}
  BY <1>2, Zenon DEF Cleared1a, StateOK1a, CipherState1a, NoLine, HasLine1a
<1> HIDE DEF t
<1>4. StatesOK1a'
  BY <1>1, <1>3, StateMayChange1a, Zenon DEF LineInv1a, StatesOK1a
<1>5. ApplyingOK1a'
  BY <1>1, <1>2, <1>3, Zenon DEF LineInv1a, StatesOK1a, ApplyingOK1a
<1> QED
  BY <1>1, <1>4, <1>5, LineStutters1a, Zenon DEF LineInv1a

(* setRemoteLineKey and SetRemoteKey find no line, or that of the          *)
(* handshake, and update completes it.                                     *)
LEMMA SetRemoteKeysKeeps1a ==
  ASSUME LineInv1a, NEW p \in Side, SetRemoteKeys1a(p)
  PROVE  LineInv1a'
<1> DEFINE h == applying1a[p]
           s == [state1a[p] EXCEPT !.remoteLineKey = h.lineKey, !.remoteKey = h.key]
           t == Update1a(s)
<1>1. /\ state1a' = [state1a EXCEPT ![p] = t]
      /\ applying1a' = [applying1a EXCEPT ![p] = Unset]
      /\ UNCHANGED <<made1a, worker1a, net1a, packets1a>>
      /\ h # Unset
  BY Zenon DEF SetRemoteKeys1a
<1>2. /\ StateOK1a(state1a[p]) /\ h.lineKey \in Lines /\ h.key \in Lines
      /\ state1a[p].remoteLineKey \in {Unset, h.lineKey}
  BY <1>1, Zenon DEF LineInv1a, StatesOK1a, ApplyingOK1a
<1>3. /\ s \in CipherState1a /\ s.remoteLineKey = h.lineKey
      /\ s.localLineKey = state1a[p].localLineKey /\ s.localToken = Token(s.localLineKey)
      /\ s.remoteToken = state1a[p].remoteToken
      /\ s.lineEncryptionKey = state1a[p].lineEncryptionKey
      /\ s.lineDecryptionKey = state1a[p].lineDecryptionKey
  BY <1>2, Zenon DEF StateOK1a, CipherState1a
<1> HIDE DEF s
<1>4. \/ HasLine1a(s)
      \/ /\ s.remoteLineKey \in Lines /\ s.remoteToken = Unset
         /\ s.lineEncryptionKey = Unset /\ s.lineDecryptionKey = Unset
  BY <1>2, <1>3, KeysAreLines, Zenon DEF StateOK1a, NoLine, HasLine1a
<1>5. StateOK1a(t)
  BY <1>3, <1>4, UpdateCompletes1a, Zenon DEF StateOK1a
<1> HIDE DEF t
<1>6. StatesOK1a'
  BY <1>1, <1>5, StateMayChange1a, Zenon DEF LineInv1a, StatesOK1a
<1>7. ApplyingOK1a'
  BY <1>1, Zenon DEF LineInv1a, StatesOK1a, ApplyingOK1a
<1> QED
  BY <1>1, <1>6, <1>7, LineStutters1a, Zenon DEF LineInv1a

(* Seal reads token and key of one line, or finds that they were cleared.  *)
LEMMA SealKeeps1a ==
  ASSUME LineInv1a, NEW p \in Side, NEW w \in Workers1a, Seal1a(p, w)
  PROVE  LineInv1a'
<1> DEFINE s == state1a[p]
           k == [at |-> "sign", token |-> s.remoteToken, key |-> s.lineEncryptionKey,
                 nonce |-> worker1a[p][w].nonce]
<1>1. UNCHANGED <<state1a, made1a, net1a, packets1a>>
  BY Zenon DEF Seal1a
<1>2. CASE CanEncryptPacket1a(s) /\ Does1a(p, w, k) /\ UNCHANGED applying1a
  <2>1. HasLine1a(s)
    BY <1>2, Zenon DEF LineInv1a, StatesOK1a, StateOK1a, NoLine, CanEncryptPacket1a
  <2>2. OneLine(k)
    BY <2>1 DEF OneLine, HasLine1a, Fold
  <2> HIDE DEF k
  <2>3. WorkersOK1a'
    BY <1>2, <2>2, WorkerMayChange, Zenon DEF LineInv1a
  <2> QED
    BY <1>1, <1>2, <2>3, LineStutters1a, Zenon DEF LineInv1a
<1>3. CASE Panic1a(p)
  <2>1. WorkersOK1a'
    <3>1. worker1a' = [worker1a EXCEPT ![p] = [v \in Workers1a |-> IdleWorker]]
      BY <1>3, Zenon DEF Panic1a
    <3>2. \A q \in Side : worker1a'[q] = IF q = p THEN [v \in Workers1a |-> IdleWorker]
                                         ELSE worker1a[q]
      BY <3>1, Zenon DEF LineInv1a, WorkersOK1a
    <3>3. \A v \in Workers1a : worker1a'[p][v].at = "idle"
      <4>1. \A v \in Workers1a : worker1a'[p][v] = IdleWorker
        BY <3>2, Zenon
      <4> QED
        BY <4>1 DEF IdleWorker
    <3>4. \A q \in Side, v \in Workers1a :
            worker1a'[q][v].at = "sign" => OneLine(worker1a'[q][v])
      <4> SUFFICES ASSUME NEW q \in Side, NEW v \in Workers1a, worker1a'[q][v].at = "sign"
                   PROVE  OneLine(worker1a'[q][v])
        BY Zenon
      <4>1. q # p
        BY <3>3
      <4>2. worker1a'[q] = worker1a[q]
        BY <3>2, <4>1, Zenon
      <4> QED
        BY <4>2, Zenon DEF LineInv1a, WorkersOK1a
    <3>5. \A q \in Side : worker1a'[q] = [v \in Workers1a |-> worker1a'[q][v]]
      BY <3>2, Zenon DEF LineInv1a, WorkersOK1a
    <3>6. worker1a' = [q \in Side |-> worker1a'[q]]
      BY <3>1, Zenon DEF LineInv1a, WorkersOK1a
    <3> QED
      BY <3>4, <3>5, <3>6, Zenon DEF WorkersOK1a, OneLine
  <2>2. ApplyingOK1a'
    BY <1>1, <1>3, Zenon DEF Panic1a, LineInv1a, ApplyingOK1a
  <2> QED
    BY <1>1, <2>1, <2>2, LineStutters1a, Zenon DEF LineInv1a
<1>4. CASE Does1a(p, w, IdleWorker) /\ UNCHANGED applying1a
  <2>1. WorkersOK1a'
    BY <1>4, WorkerMayChange, Zenon DEF LineInv1a, IdleWorker
  <2> QED
    BY <1>1, <1>4, <2>1, LineStutters1a, Zenon DEF LineInv1a
<1> QED
  BY <1>2, <1>3, <1>4, Zenon DEF Seal1a

(* Sign puts together the packet that the goroutine has.                   *)
LEMMA SignKeeps1a ==
  ASSUME LineInv1a, NEW p \in Side, NEW w \in Workers1a, Sign1a(p, w)
  PROVE  LineInv1a'
<1> DEFINE k == worker1a[p][w]
<1>1. OneLine(k)
  BY Zenon DEF Sign1a, LineInv1a, WorkersOK1a
<1>2. \A j \in packets1a' : j \in packets1a \/ (j.token = k.token /\ j.key = k.key)
  BY DEF Sign1a
<1>3. PacketsOK1a'
  BY <1>1, <1>2, Zenon DEF LineInv1a, PacketsOK1a, OneLine
<1>4. WorkersOK1a'
  BY WorkerMayChange, Zenon DEF Sign1a, LineInv1a, IdleWorker
<1> QED
  BY <1>3, <1>4, LineStutters1a, Zenon DEF LineInv1a, Sign1a

(* A goroutine goes on, and not to sign.                                   *)
SignsNot(p, w) == \E what : Does1a(p, w, what) /\ what.at # "sign"

(* What else a goroutine does signs nothing.                               *)
LEMMA OtherWorkKeeps1a ==
  ASSUME LineInv1a, NEW p \in Side, NEW w \in Workers1a,
         \/ \E n \in Nonces : EncryptPacket1a(p, w, n)
         \/ \E k \in packets1a : DecryptPacket1a(p, w, k)
         \/ Open1a(p, w) \/ Verify1a(p, w) \/ Return1a(p, w)
  PROVE  LineInv1a'
<1>1. UNCHANGED <<state1a, made1a, applying1a, net1a, packets1a>>
  BY Zenon DEF EncryptPacket1a, DecryptPacket1a, Open1a, Verify1a, Return1a
<1>2. SignsNot(p, w)
  <2>1. ASSUME NEW n \in Nonces, EncryptPacket1a(p, w, n)
        PROVE  SignsNot(p, w)
    <3> DEFINE what == [at |-> "seal", nonce |-> n]
    <3>1. Does1a(p, w, what)
      BY <2>1, Zenon DEF EncryptPacket1a
    <3>2. what.at # "sign"
      OBVIOUS
    <3> QED
      BY <3>1, <3>2, Zenon DEF SignsNot
  <2>2. ASSUME NEW k \in packets1a, DecryptPacket1a(p, w, k)
        PROVE  SignsNot(p, w)
    <3> DEFINE what == [at |-> "open", packet |-> k]
    <3>1. Does1a(p, w, what)
      BY <2>2, Zenon DEF DecryptPacket1a
    <3>2. what.at # "sign"
      OBVIOUS
    <3> QED
      BY <3>1, <3>2, Zenon DEF SignsNot
  <2>3. ASSUME Does1a(p, w, IdleWorker)
        PROVE  SignsNot(p, w)
    <3>1. IdleWorker.at # "sign"
      BY DEF IdleWorker
    <3> QED
      BY <2>3, <3>1, Zenon DEF SignsNot
  <2>4. CASE Open1a(p, w)
    <3> DEFINE what == [at |-> "verify", packet |-> worker1a[p][w].packet,
                        key |-> state1a[p].lineDecryptionKey]
    <3>1. Does1a(p, w, what) \/ Does1a(p, w, IdleWorker)
      BY <2>4, Zenon DEF Open1a
    <3>2. what.at # "sign"
      OBVIOUS
    <3> QED
      BY <2>3, <3>1, <3>2, Zenon DEF SignsNot
  <2>5. CASE Verify1a(p, w)
    <3> DEFINE what == [at |-> "opened", packet |-> worker1a[p][w].packet,
                        ok |-> Verifies(worker1a[p][w].packet, worker1a[p][w].key, spare[p].dec)]
    <3>1. Does1a(p, w, what)
      BY <2>5, Zenon DEF Verify1a
    <3>2. what.at # "sign"
      OBVIOUS
    <3> QED
      BY <3>1, <3>2, Zenon DEF SignsNot
  <2>6. CASE Return1a(p, w)
    BY <2>3, <2>6, Zenon DEF Return1a
  <2> QED
    BY <2>1, <2>2, <2>4, <2>5, <2>6, Zenon
<1>3. WorkersOK1a'
  BY <1>2, WorkerMayChange, Zenon DEF LineInv1a, SignsNot
<1> QED
  BY <1>1, <1>3, LineStutters1a, Zenon DEF LineInv1a

(* Every step keeps the invariant.                                         *)
LEMMA LineStepInv1a == LineInv1a /\ [CS1aNext]_cs1aVars => LineInv1a'
<1> SUFFICES ASSUME LineInv1a, [CS1aNext]_cs1aVars PROVE LineInv1a'
  OBVIOUS
<1>1. CASE UNCHANGED cs1aVars
  BY <1>1, LineStutters1a, Zenon DEF cs1aVars, LineInv1a
<1>2. ASSUME NEW p \in Side,
             \/ NewState1a(p) \/ EncryptHandshake1a(p) \/ SetRemoteKeys1a(p)
             \/ \E h \in net1a : ApplyHandshake1a(p, h)
      PROVE  LineInv1a'
  BY <1>2, NewStateKeeps1a, EncryptHandshakeKeeps1a, SetRemoteKeysKeeps1a, ApplyHandshakeKeeps1a,
     Zenon
<1>3. ASSUME NEW p \in Side, NEW w \in Workers1a,
             \/ \E n \in Nonces : EncryptPacket1a(p, w, n)
             \/ Seal1a(p, w) \/ Sign1a(p, w)
             \/ \E k \in packets1a : DecryptPacket1a(p, w, k)
             \/ Open1a(p, w) \/ Verify1a(p, w) \/ Return1a(p, w)
      PROVE  LineInv1a'
  BY <1>3, SealKeeps1a, SignKeeps1a, OtherWorkKeeps1a, Zenon
<1> QED
  BY <1>1, <1>2, <1>3, Zenon DEF CS1aNext

(* Sides that hold each other's line have the same keys, crosswise.        *)
LEMMA LineInvImplies1a == LineInv1a => LinesAreSound1a
<1> SUFFICES ASSUME LineInv1a PROVE LinesAreSound1a
  BY Zenon
<1>1. PacketsAreOfOneLine1a
  BY Zenon DEF LineInv1a, PacketsOK1a, PacketsAreOfOneLine1a, OneLine
<1>2. LineKeysAgree1a
  <2> DEFINE a == state1a["a"]
             b == state1a["b"]
  <2>1. StateOK1a(a) /\ StateOK1a(b)
    BY Zenon DEF LineInv1a, StatesOK1a, Side
  <2>2. a.localLineKey \in Lines /\ b.localLineKey \in Lines
    BY <2>1, Zenon DEF StateOK1a, CipherState1a
  <2> SUFFICES ASSUME a.remoteLineKey = b.localLineKey, b.remoteLineKey = a.localLineKey
               PROVE  /\ a.lineEncryptionKey = b.lineDecryptionKey
                      /\ b.lineEncryptionKey = a.lineDecryptionKey
                      /\ a.remoteToken = b.localToken /\ b.remoteToken = a.localToken
    BY Zenon DEF LineKeysAgree1a
  <2>3. HasLine1a(a) /\ HasLine1a(b)
    BY <2>1, <2>2, KeysAreLines, Zenon DEF StateOK1a, NoLine
  <2>4. {a.localLineKey, b.localLineKey} = {b.localLineKey, a.localLineKey}
    BY Zenon
  <2> QED
    BY <2>1, <2>3, <2>4, Zenon DEF StateOK1a, HasLine1a
<1> QED
  BY <1>1, <1>2, Zenon DEF LinesAreSound1a

(* Sides that hold each other's line encrypt and decrypt alike, and a       *)
(* packet carries the token of the line whose key sealed it, however many   *)
(* goroutines seal and open while handshakes are taken over                 *)
(* (cs1a_cipher.go, update, EncryptPacket, ApplyHandshake).                *)
THEOREM LinesAgree1a == CS1aSpec => []LinesAreSound1a
BY LineInitInv1a, LineStepInv1a, LineInvImplies1a, PTL DEF CS1aSpec
=============================================================================
