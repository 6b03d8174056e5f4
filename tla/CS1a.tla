-------------------------------- MODULE CS1a --------------------------------
(***************************************************************************)
(* Cipher set 1a (e3x/cipherset/cs1a): the line of two exchanges, and the  *)
(* goroutines that seal and open its packets under the read lock.          *)
(*                                                                         *)
(* Keys are symbolic and named as in CS3a.  The key of a packet's HMAC is  *)
(* append(lineEncryptionKey, nonce...): fold has made the line key the     *)
(* first half of a larger array, so append writes the nonce into the spare *)
(* half that all the goroutines share, and hmac.New reads it from there.   *)
(***************************************************************************)
EXTENDS CS3a

CONSTANTS
  Workers1a,    \* goroutines of a side that seal and open packets
  Nonces,       \* what the random source yields
  MaxPackets1a  \* bound: packets that are sealed

\* What ecdh makes of a public and a private half is one secret of the two pairs.
ComputeShared(pub, prv) == {pub, prv}

VARIABLES
  state1a,     \* of each side: the fields of its cipher state
  made1a,      \* of each side: states made so far
  applying1a,  \* of each side: the handshake ApplyHandshake is at; Unset
  worker1a,    \* of each goroutine: what it does under the read lock
  dead1a,      \* of each side: a nil pointer has ended the program
  spare,       \* of each side: the spare halves of the two line keys
  net1a,       \* handshakes sent
  packets1a    \* packets sealed

cs1aVars == <<state1a, made1a, applying1a, worker1a, dead1a, spare, net1a, packets1a>>

NoSpare == [enc |-> Unset, dec |-> Unset]
Runs1a(p) == ~dead1a[p] /\ made1a[p] > 0
RUnlocked1a(p) == \A w \in Workers1a : worker1a[p][w] = IdleWorker

-----------------------------------------------------------------------------
(* The state                                                               *)

\* fold halves a hash until it is short: a function of the whole of it.
Fold(hash) == [fold |-> hash]

\* Mutant of LineKeys1a: both directions use one order of the keys.
LineKeysOneOrder(local, remote) ==
  LET key == Fold(<<ComputeShared(remote, local), local, remote>>) IN [enc |-> key, dec |-> key]

LineKeys1a(local, remote) ==
  LET shared == ComputeShared(remote, local)
  IN [enc |-> Fold(<<shared, local, remote>>), dec |-> Fold(<<shared, remote, local>>)]

Update1a(s) ==
  LET token == IF s.remoteToken = Unset /\ s.remoteLineKey # Unset
               THEN Token(s.remoteLineKey) ELSE s.remoteToken
      fresh == token # Unset /\ (s.lineEncryptionKey = Unset \/ s.lineDecryptionKey = Unset)
      keys  == LineKeys1a(s.localLineKey, s.remoteLineKey)
  IN [s EXCEPT !.remoteToken = token,
               !.lineEncryptionKey = IF fresh THEN keys.enc ELSE @,
               !.lineDecryptionKey = IF fresh THEN keys.dec ELSE @]

BlankState1a(p, i) ==
  [localLineKey |-> LineKey(p, i), localToken |-> Token(LineKey(p, i)),
   remoteKey |-> Unset, remoteLineKey |-> Unset, remoteToken |-> Unset,
   lineEncryptionKey |-> Unset, lineDecryptionKey |-> Unset]

\* NewState, with SetRemoteKey when the peer's key is known.
NewState1a(p) ==
  /\ made1a[p] < MaxStates[p]
  /\ applying1a[p] = Unset /\ RUnlocked1a(p)
  /\ made1a' = [made1a EXCEPT ![p] = @ + 1]
  /\ \E k \in {Unset, Key(Peer(p))} :
       state1a' = [state1a EXCEPT ![p] =
                     Update1a([BlankState1a(p, made1a[p] + 1) EXCEPT !.remoteKey = k])]
  /\ dead1a' = [dead1a EXCEPT ![p] = FALSE]
  /\ spare' = [spare EXCEPT ![p] = NoSpare]
  /\ UNCHANGED <<applying1a, worker1a, net1a, packets1a>>

CanEncryptMessage1a(s) == s.remoteKey # Unset
CanEncryptPacket1a(s) == s.lineEncryptionKey # Unset /\ s.remoteToken # Unset
CanDecryptPacket1a(s) == s.lineDecryptionKey # Unset

-----------------------------------------------------------------------------
(* Handshakes                                                              *)

\* The key of this HMAC, the secret of the identity keys and the IV, is an array
\* of its own.
EncryptHandshake1a(p) ==
  LET s == state1a[p]
  IN /\ Runs1a(p) /\ CanEncryptMessage1a(s)
     /\ net1a' = net1a \cup {[lineKey |-> s.localLineKey, key |-> Key(p),
                              aes |-> ComputeShared(s.remoteKey, s.localLineKey),
                              mac |-> ComputeShared(s.remoteKey, Key(p))]}
     /\ UNCHANGED <<state1a, made1a, applying1a, worker1a, dead1a, spare, packets1a>>

\* What the stream cipher yields under another key is no packet.
DecryptHandshake1a(p, h) ==
  /\ h.aes = ComputeShared(h.lineKey, Key(p))
  /\ h.mac = ComputeShared(h.key, Key(p))

\* Mutant of Cleared1a: the token of the line before stays.
KeepsToken1a(s, h) ==
  IF s.remoteLineKey \notin {Unset, h.lineKey}
  THEN [s EXCEPT !.remoteLineKey = Unset,
                 !.lineEncryptionKey = Unset, !.lineDecryptionKey = Unset]
  ELSE s

Cleared1a(s, h) ==
  IF s.remoteLineKey \notin {Unset, h.lineKey}
  THEN [s EXCEPT !.remoteLineKey = Unset, !.remoteToken = Unset,
                 !.lineEncryptionKey = Unset, !.lineDecryptionKey = Unset]
  ELSE s

\* As in CS3a: the line of another key is cleared with no lock held.
ApplyHandshake1a(p, h) ==
  /\ Runs1a(p) /\ applying1a[p] = Unset
  /\ DecryptHandshake1a(p, h)
  /\ state1a[p].remoteKey \in {Unset, h.key}
  /\ state1a' = [state1a EXCEPT ![p] = Cleared1a(@, h)]
  /\ applying1a' = [applying1a EXCEPT ![p] = h]
  /\ UNCHANGED <<made1a, worker1a, dead1a, spare, net1a, packets1a>>

\* setRemoteLineKey and SetRemoteKey, under the lock; fold makes new arrays.
SetRemoteKeys1a(p) ==
  LET h == applying1a[p]
      s == [state1a[p] EXCEPT !.remoteLineKey = h.lineKey, !.remoteKey = h.key]
  IN /\ Runs1a(p) /\ h # Unset /\ RUnlocked1a(p)
     /\ state1a' = [state1a EXCEPT ![p] = Update1a(s)]
     /\ spare' = [spare EXCEPT ![p] = IF s.lineEncryptionKey = Unset THEN NoSpare ELSE @]
     /\ applying1a' = [applying1a EXCEPT ![p] = Unset]
     /\ UNCHANGED <<made1a, worker1a, dead1a, net1a, packets1a>>

-----------------------------------------------------------------------------
(* Packets                                                                 *)

Does1a(p, w, what) == worker1a' = [worker1a EXCEPT ![p][w] = what]

Panic1a(p) ==
  /\ dead1a' = [dead1a EXCEPT ![p] = TRUE]
  /\ worker1a' = [worker1a EXCEPT ![p] = [w \in Workers1a |-> IdleWorker]]
  /\ applying1a' = [applying1a EXCEPT ![p] = Unset]

\* append(lineKey, nonce...) writes in place what every goroutine reads.
AppendNonce(p, half, nonce) == spare' = [spare EXCEPT ![p][half] = nonce]

\* The read lock, the check, the nonce.
EncryptPacket1a(p, w, nonce) ==
  /\ Runs1a(p) /\ worker1a[p][w] = IdleWorker
  /\ CanEncryptPacket1a(state1a[p]) /\ Cardinality(packets1a) < MaxPackets1a
  /\ Does1a(p, w, [at |-> "seal", nonce |-> nonce])
  /\ UNCHANGED <<state1a, made1a, applying1a, dead1a, spare, net1a, packets1a>>

\* The token is copied, the inner packet encrypted and the key of the HMAC put
\* together, through pointers that a handshake may have cleared since: a nil token is
\* a panic, a nil line key an error of AES.
Seal1a(p, w) ==
  LET s == state1a[p]
      n == worker1a[p][w].nonce
  IN /\ Runs1a(p) /\ worker1a[p][w].at = "seal"
     /\ \/ /\ CanEncryptPacket1a(s)
           /\ AppendNonce(p, "enc", n)
           /\ Does1a(p, w, [at |-> "sign", token |-> s.remoteToken, key |-> s.lineEncryptionKey,
                            nonce |-> n])
           /\ UNCHANGED <<dead1a, applying1a>>
        \/ ~CanEncryptPacket1a(s) /\ Panic1a(p) /\ UNCHANGED spare
        \/ /\ ~CanEncryptPacket1a(s) /\ Does1a(p, w, IdleWorker)
           /\ UNCHANGED <<spare, dead1a, applying1a>>
     /\ UNCHANGED <<state1a, made1a, net1a, packets1a>>

\* hmac.New reads the shared bytes.
Sign1a(p, w) ==
  LET k == worker1a[p][w]
  IN /\ Runs1a(p) /\ k.at = "sign"
     /\ packets1a' = packets1a \cup {[token |-> k.token, nonce |-> k.nonce, key |-> k.key,
                                    mac |-> <<k.key, spare[p].enc>>]}
     /\ Does1a(p, w, IdleWorker)
     /\ UNCHANGED <<state1a, made1a, applying1a, dead1a, spare, net1a>>

\* The read lock, the check, the comparison of the token.
DecryptPacket1a(p, w, k) ==
  /\ Runs1a(p) /\ worker1a[p][w] = IdleWorker
  /\ CanDecryptPacket1a(state1a[p])
  /\ k.token = state1a[p].localToken
  /\ Does1a(p, w, [at |-> "open", packet |-> k])
  /\ UNCHANGED <<state1a, made1a, applying1a, dead1a, spare, net1a, packets1a>>

\* With a line key that was cleared the HMAC is another one: an error.
Open1a(p, w) ==
  LET k == worker1a[p][w].packet
  IN /\ Runs1a(p) /\ worker1a[p][w].at = "open"
     /\ IF CanDecryptPacket1a(state1a[p])
        THEN /\ AppendNonce(p, "dec", k.nonce)
             /\ Does1a(p, w, [at |-> "verify", packet |-> k, key |-> state1a[p].lineDecryptionKey])
        ELSE Does1a(p, w, IdleWorker) /\ UNCHANGED spare
     /\ UNCHANGED <<state1a, made1a, applying1a, dead1a, net1a, packets1a>>

Verifies(k, key, nonce) == k.mac = <<key, nonce>>

\* The HMAC of another line, or of other bytes, is refused.
Verify1a(p, w) ==
  /\ Runs1a(p) /\ worker1a[p][w].at = "verify"
  /\ Does1a(p, w, [at |-> "opened", packet |-> worker1a[p][w].packet,
                   ok |-> Verifies(worker1a[p][w].packet, worker1a[p][w].key, spare[p].dec)])
  /\ UNCHANGED <<state1a, made1a, applying1a, dead1a, spare, net1a, packets1a>>

\* The read lock is released.
Return1a(p, w) ==
  /\ Runs1a(p) /\ worker1a[p][w].at = "opened"
  /\ Does1a(p, w, IdleWorker)
  /\ UNCHANGED <<state1a, made1a, applying1a, dead1a, spare, net1a, packets1a>>

-----------------------------------------------------------------------------

CS1aInit ==
  /\ state1a = [p \in Side |-> BlankState1a(p, 0)]
  /\ made1a = [p \in Side |-> 0]
  /\ applying1a = [p \in Side |-> Unset]
  /\ worker1a = [p \in Side |-> [w \in Workers1a |-> IdleWorker]]
  /\ dead1a = [p \in Side |-> FALSE]
  /\ spare = [p \in Side |-> NoSpare]
  /\ net1a = {} /\ packets1a = {}

CS1aNext ==
  \E p \in Side :
    \/ NewState1a(p) \/ EncryptHandshake1a(p) \/ SetRemoteKeys1a(p)
    \/ \E h \in net1a : ApplyHandshake1a(p, h)
    \/ \E w \in Workers1a : \/ \E n \in Nonces : EncryptPacket1a(p, w, n)
                            \/ Seal1a(p, w) \/ Sign1a(p, w)
                            \/ \E k \in packets1a : DecryptPacket1a(p, w, k)
                            \/ Open1a(p, w) \/ Verify1a(p, w) \/ Return1a(p, w)

CS1aSpec == CS1aInit /\ [][CS1aNext]_cs1aVars

-----------------------------------------------------------------------------
(* Properties.                                                             *)

\* As CS3a's: once each side has the other's line, what one encrypts the other
\* decrypts, and each finds the exchange by the other's token (update).
LineKeysAgree1a ==
  LET a == state1a["a"]  b == state1a["b"]
  IN (/\ \A p \in Side : Runs1a(p) /\ applying1a[p] = Unset
      /\ a.remoteLineKey = b.localLineKey /\ b.remoteLineKey = a.localLineKey)
     => /\ a.lineEncryptionKey = b.lineDecryptionKey
        /\ b.lineEncryptionKey = a.lineDecryptionKey
        /\ a.remoteToken = b.localToken /\ b.remoteToken = a.localToken

\* A packet carries the token of the line whose key sealed it (EncryptPacket,
\* ApplyHandshake).
PacketsAreOfOneLine1a == \A k \in packets1a : k.token = Token(k.key.fold[3])

\* Sides that hold each other's line encrypt, decrypt and find their exchange alike, and
\* what is sealed while a handshake is taken over is of one line (cs1a_cipher.go, update,
\* EncryptPacket, ApplyHandshake).
LinesAreSound1a == LineKeysAgree1a /\ PacketsAreOfOneLine1a

\* What one side seals with the key of their line the other opens: "assert.NoError(err)"
\* after DecryptPacket (cipherset/tests/testing.go), for goroutines that share an exchange
\* (EncryptPacket, DecryptPacket).
SealedPacketsVerify ==
  \A p \in Side, w \in Workers1a :
    worker1a[p][w].at = "opened" /\ worker1a[p][w].packet.key = state1a[p].lineDecryptionKey
    => worker1a[p][w].ok
=============================================================================
