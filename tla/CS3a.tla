-------------------------------- MODULE CS3a --------------------------------
(***************************************************************************)
(* Cipher set 3a (e3x/cipherset/cs3a): the cipher states of two exchanges, *)
(* a handshake taken over while goroutines seal and open packets.          *)
(*                                                                         *)
(* Cryptography is symbolic: <<p, 0>> is the identity key of side p and    *)
(* <<p, i>> the line key of its i-th state; two key pairs share one secret *)
(* whichever half each side holds; a box opens with the key and the nonce  *)
(* it was sealed with.  The handshakes are kept for ever, so they may be   *)
(* lost, repeated, delayed and reordered.  EncryptPacket and DecryptPacket *)
(* hold the read lock; ApplyHandshake clears the line before it locks, and *)
(* a goroutine that finds a cleared pointer under its read lock panics.    *)
(***************************************************************************)
EXTENDS Naturals, FiniteSets

CONSTANTS
  Unset,           \* nil
  Workers,         \* goroutines of a side that seal and open packets
  AStates, BStates,  \* bounds: states that each side makes
  MaxPackets       \* bound: packets that are sealed with one state

Side == {"a", "b"}
Peer(p) == IF p = "a" THEN "b" ELSE "a"
MaxStates == [p \in Side |-> IF p = "a" THEN AStates ELSE BStates]
Key(p) == <<p, 0>>
LineKey(p, i) == <<p, i>>
Precompute(pub, prv) == {pub, prv}
Token(lineKey) == [tokenOf |-> lineKey]

\* Nil is no key and no token.
ASSUME UnsetAssumption ==
  LET Keys == {"a", "b", "c"} \X Nat
  IN Unset \notin Keys /\ Unset \notin [tokenOf : Keys]

VARIABLES
  state,     \* of each side: the fields of its cipher state
  made,      \* of each side: states made so far
  applying,  \* of each side: the handshake ApplyHandshake is at; Unset
  worker,    \* of each goroutine: what it does under the read lock
  dead,      \* of each side: a nil pointer has ended the program
  handshakes,       \* handshakes sent
  packets,   \* packets sealed
  seals      \* how many were sealed

cs3aVars == <<state, made, applying, worker, dead, handshakes, packets, seals>>

IdleWorker == [at |-> "idle"]
Runs(p) == ~dead[p] /\ made[p] > 0
RUnlocked(p) == \A w \in Workers : worker[p][w] = IdleWorker

-----------------------------------------------------------------------------
(* The state                                                               *)

\* Mutant of LineKeys: both directions use one order of the keys.
SameLineKeys(local, remote) ==
  LET shared == Precompute(remote, local)
  IN [enc |-> <<shared, local, remote>>, dec |-> <<shared, local, remote>>]

LineKeys(local, remote) ==
  LET shared == Precompute(remote, local)
  IN [enc |-> <<shared, local, remote>>, dec |-> <<shared, remote, local>>]

Update(p, s) ==
  LET base  == IF s.macKeyBase = Unset /\ s.remoteKey # Unset
               THEN Precompute(s.remoteKey, Key(p)) ELSE s.macKeyBase
      token == IF s.remoteToken = Unset /\ s.remoteLineKey # Unset
               THEN Token(s.remoteLineKey) ELSE s.remoteToken
      fresh == token # Unset /\ (s.lineEncryptionKey = Unset \/ s.lineDecryptionKey = Unset)
      keys  == LineKeys(s.localLineKey, s.remoteLineKey)
  IN [s EXCEPT !.macKeyBase = base,
               !.remoteToken = token,
               !.lineEncryptionKey = IF fresh THEN keys.enc ELSE @,
               !.lineDecryptionKey = IF fresh THEN keys.dec ELSE @]

BlankState(p, i) ==
  [localLineKey |-> LineKey(p, i), localToken |-> Token(LineKey(p, i)),
   remoteKey |-> Unset, remoteLineKey |-> Unset, remoteToken |-> Unset,
   macKeyBase |-> Unset, lineEncryptionKey |-> Unset, lineDecryptionKey |-> Unset,
   pktNoncePrefix |-> i, pktNonceSuffix |-> 0]

\* NewState, for a peer whose key is known (SetRemoteKey follows), or for the
\* handshake of one that is not.  A side that has died starts again.
NewState(p) ==
  /\ made[p] < MaxStates[p]
  /\ applying[p] = Unset /\ RUnlocked(p)
  /\ made' = [made EXCEPT ![p] = @ + 1]
  /\ \E k \in {Unset, Key(Peer(p))} :
       state' = [state EXCEPT ![p] =
                   Update(p, [BlankState(p, made[p] + 1) EXCEPT !.remoteKey = k])]
  /\ dead' = [dead EXCEPT ![p] = FALSE]
  /\ UNCHANGED <<applying, worker, handshakes, packets, seals>>

CanEncryptMessage(s) == s.remoteKey # Unset
CanEncryptPacket(s) == s.lineEncryptionKey # Unset /\ s.remoteToken # Unset
CanDecryptPacket(s) == s.lineDecryptionKey # Unset

-----------------------------------------------------------------------------
(* Handshakes                                                              *)

\* EncryptHandshake: the inner packet names the sender, is boxed with the line key
\* for the receiver, and the whole is signed with the two identity keys.
EncryptHandshake(p) ==
  LET s == state[p]
  IN /\ Runs(p) /\ CanEncryptMessage(s)
     /\ handshakes' = handshakes \cup {[lineKey |-> s.localLineKey, key |-> Key(p),
                          box |-> Precompute(s.remoteKey, s.localLineKey),
                          mac |-> s.macKeyBase]}
     /\ UNCHANGED <<state, made, applying, worker, dead, packets, seals>>

\* The box must open, and the signature be of the key that it names.
DecryptHandshake(p, h) ==
  /\ h.box = Precompute(h.lineKey, Key(p))
  /\ h.mac = Precompute(h.key, Key(p))

\* Mutant of Cleared: the token of the line before stays.
KeepsToken(s, h) ==
  IF s.remoteLineKey \notin {Unset, h.lineKey}
  THEN [s EXCEPT !.remoteLineKey = Unset,
                 !.lineEncryptionKey = Unset, !.lineDecryptionKey = Unset]
  ELSE s

Cleared(s, h) ==
  IF s.remoteLineKey \notin {Unset, h.lineKey}
  THEN [s EXCEPT !.remoteLineKey = Unset, !.remoteToken = Unset,
                 !.lineEncryptionKey = Unset, !.lineDecryptionKey = Unset]
  ELSE s

\* The exchange's mutex is held: one ApplyHandshake at a time.  A handshake of
\* another key is refused; a line that is not the handshake's is cleared, with no
\* regard to the lock of the state.
ApplyHandshake(p, h) ==
  /\ Runs(p) /\ applying[p] = Unset
  /\ DecryptHandshake(p, h)
  /\ state[p].remoteKey \in {Unset, h.key}
  /\ state' = [state EXCEPT ![p] = Cleared(@, h)]
  /\ applying' = [applying EXCEPT ![p] = h]
  /\ UNCHANGED <<made, worker, dead, handshakes, packets, seals>>

\* setRemoteLineKey, under the lock.
SetRemoteLineKey(p) ==
  /\ Runs(p) /\ applying[p] # Unset /\ RUnlocked(p)
  /\ state[p].remoteLineKey # applying[p].lineKey
  /\ state' = [state EXCEPT ![p] =
                 Update(p, [@ EXCEPT !.remoteLineKey = applying[p].lineKey])]
  /\ UNCHANGED <<made, applying, worker, dead, handshakes, packets, seals>>

\* SetRemoteKey, under the lock again, when the key was not known.
SetRemoteKey(p) ==
  /\ Runs(p) /\ applying[p] # Unset /\ RUnlocked(p)
  /\ state[p].remoteLineKey = applying[p].lineKey
  /\ state' = [state EXCEPT ![p] =
                 IF @.remoteKey = Unset
                 THEN Update(p, [@ EXCEPT !.remoteKey = applying[p].key]) ELSE @]
  /\ applying' = [applying EXCEPT ![p] = Unset]
  /\ UNCHANGED <<made, worker, dead, handshakes, packets, seals>>

-----------------------------------------------------------------------------
(* Packets                                                                 *)

Does(p, w, what) == worker' = [worker EXCEPT ![p][w] = what]

Panic(p) ==
  /\ dead' = [dead EXCEPT ![p] = TRUE]
  /\ worker' = [worker EXCEPT ![p] = [w \in Workers |-> IdleWorker]]
  /\ applying' = [applying EXCEPT ![p] = Unset]

\* Mutant of TakeNonce: the counter is read here and written when the packet is sealed.
ReadNonce(p) == UNCHANGED state

\* atomic.AddUint64.
TakeNonce(p) == state' = [state EXCEPT ![p].pktNonceSuffix = @ + 1]

\* The read lock, the check, and the nonce.
EncryptPacket(p, w) ==
  LET s == state[p]
  IN /\ Runs(p) /\ worker[p][w] = IdleWorker
     /\ CanEncryptPacket(s) /\ s.pktNonceSuffix < MaxPackets
     /\ TakeNonce(p)
     /\ Does(p, w, [at |-> "seal", nonce |-> <<s.pktNoncePrefix, s.pktNonceSuffix + 1>>])
     /\ UNCHANGED <<made, applying, dead, handshakes, packets, seals>>

\* Token and key are read through pointers that a handshake may have cleared since.
Seal(p, w) ==
  LET s == state[p]
  IN /\ Runs(p) /\ worker[p][w].at = "seal"
     /\ \/ /\ CanEncryptPacket(s)
           /\ packets' = packets \cup {[token |-> s.remoteToken, nonce |-> worker[p][w].nonce,
                                        key |-> s.lineEncryptionKey]}
           /\ seals' = seals + 1
           /\ Does(p, w, IdleWorker)
           /\ UNCHANGED <<dead, applying>>
        \/ ~CanEncryptPacket(s) /\ Panic(p) /\ UNCHANGED <<packets, seals>>
     /\ UNCHANGED <<state, made, handshakes>>

\* The read lock, the check, and the comparison of the token.
DecryptPacket(p, w, k) ==
  /\ Runs(p) /\ worker[p][w] = IdleWorker
  /\ CanDecryptPacket(state[p])
  /\ k.token = state[p].localToken
  /\ Does(p, w, [at |-> "open", packet |-> k])
  /\ UNCHANGED <<state, made, applying, dead, handshakes, packets, seals>>

\* The key too is read through such a pointer.  A box that another key sealed is
\* refused, with no effect on the state.
Open(p, w) ==
  /\ Runs(p) /\ worker[p][w].at = "open"
  /\ \/ CanDecryptPacket(state[p]) /\ Does(p, w, IdleWorker) /\ UNCHANGED <<dead, applying>>
     \/ ~CanDecryptPacket(state[p]) /\ Panic(p)
  /\ UNCHANGED <<state, made, handshakes, packets, seals>>

-----------------------------------------------------------------------------

\* What a third endpoint, "c", has sent to one side and what it was sent: with the
\* exchanges' handshakes in one network, either side may receive both.
Foreign ==
  {[lineKey |-> LineKey("c", 1), key |-> Key("c"), box |-> {Key("a"), LineKey("c", 1)},
    mac |-> {Key("a"), Key("c")}],
   [lineKey |-> LineKey("b", 9), key |-> Key("b"), box |-> {Key("c"), LineKey("b", 9)},
    mac |-> {Key("b"), Key("c")}]}

CS3aInit ==
  /\ state = [p \in Side |-> BlankState(p, 0)]
  /\ made = [p \in Side |-> 0]
  /\ applying = [p \in Side |-> Unset]
  /\ worker = [p \in Side |-> [w \in Workers |-> IdleWorker]]
  /\ dead = [p \in Side |-> FALSE]
  /\ handshakes = Foreign /\ packets = {} /\ seals = 0

CS3aNext ==
  \E p \in Side :
    \/ NewState(p) \/ EncryptHandshake(p) \/ SetRemoteLineKey(p) \/ SetRemoteKey(p)
    \/ \E h \in handshakes : ApplyHandshake(p, h)
    \/ \E w \in Workers : \/ EncryptPacket(p, w) \/ Seal(p, w) \/ Open(p, w)
                          \/ \E k \in packets : DecryptPacket(p, w, k)

CS3aSpec == CS3aInit /\ [][CS3aNext]_cs3aVars

-----------------------------------------------------------------------------
(* Properties.                                                             *)

\* Once each side has taken over the line of the other, what one encrypts the other
\* decrypts, both ways, and each finds the exchange by the other's token: however
\* the handshakes of this and of earlier states were ordered (update).
LineKeysAgree ==
  LET a == state["a"]  b == state["b"]
  IN (/\ \A p \in Side : Runs(p) /\ applying[p] = Unset
      /\ a.remoteLineKey = b.localLineKey /\ b.remoteLineKey = a.localLineKey)
     => /\ a.lineEncryptionKey = b.lineDecryptionKey
        /\ b.lineEncryptionKey = a.lineDecryptionKey
        /\ a.remoteToken = b.localToken /\ b.remoteToken = a.localToken

\* A packet carries the token of the line whose key sealed it, whatever handshake is
\* taken over while it is sealed (EncryptPacket, ApplyHandshake).
PacketsAreOfOneLine == \A k \in packets : k.token = Token(k.key[3])

\* No two packets are sealed with one key and one nonce, with several goroutines
\* under the read lock (pktNonceSuffix).
NoncesAreUnique == Cardinality({<<k.key, k.nonce>> : k \in packets}) = seals

\* Sides that hold each other's line encrypt, decrypt and find their exchange alike, and
\* what is sealed meanwhile is of one line and has a nonce of its own (cs3a_cipher.go,
\* update, EncryptPacket, ApplyHandshake).
LinesAreSound == LineKeysAgree /\ PacketsAreOfOneLine /\ NoncesAreUnique
=============================================================================
