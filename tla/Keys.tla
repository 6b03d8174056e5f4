--------------------------------- MODULE Keys ---------------------------------
(***************************************************************************)
(* Keys, the parts of a hashname and identities (e3x/cipherset/map.go,     *)
(* registry.go, internal/hashname, e3x/identity.go), and the ways in which *)
(* an endpoint learns the hashname of another: the identity as JSON, a     *)
(* handshake, a key packet that a router passes on (introduceVia and       *)
(* handle_connect), and the TXT records of its domain.                     *)
(*                                                                         *)
(* SHA-256 is injective: a hash is a term.  Text is a record that says how *)
(* it was encoded.                                                         *)
(***************************************************************************)
EXTENDS Integers, Sequences, SequencesExt, FiniteSets, FiniteSetsExt, TLC

CONSTANTS
  None,
  Ciphers,    \* CSIDs of the ciphers that both endpoints have registered
  Unknown,    \* CSIDs of ciphers that only other implementations have
  Chunks      \* number of TXT records that hold a key (below 10)

VARIABLES
  keys,       \* private keys of the first endpoint, by CSID
  learned,    \* identities of it that the second has learned, and how
  exchanges   \* CSIDs the second has opened exchanges with

vars == <<keys, learned, exchanges>>

NoMap == [c \in {} |-> None]

-----------------------------------------------------------------------------
(* Text                                                                    *)

Hex(csid) == [hex |-> csid]
Base32(bytes) == [base32 |-> bytes]
\* DecodeString of base32util: bytes, or None.
DecodeString(text) == IF "base32" \in DOMAIN text THEN text.base32 ELSE None

\* A map by CSID as a JSON object, and the loops of KeysFromJSON, PartsFromHeader and
\* UnmarshalJSON: each name is two hexadecimal digits, each value a string.
Object(m, Text(_)) == {[name |-> Hex(c), value |-> Text(m[c])] : c \in DOMAIN m}
FromObject(o, Value(_, _)) ==
  [c \in {x.name.hex : x \in {y \in o : "hex" \in DOMAIN y.name}} |->
     Value(c, (CHOOSE x \in o : x.name = Hex(c)).value)]

-----------------------------------------------------------------------------
(* Keys                                                                    *)

\* A key of a cipher that is not registered is opaque.
DecodeKeyBytes(csid, pub, prv) ==
  [csid |-> csid, pub |-> pub, prv |-> prv, opaque |-> csid \notin Ciphers]

DecodeKey(csid, pub, prv) == DecodeKeyBytes(csid, DecodeString(pub), DecodeString(prv))

GenerateKey(csid) == DecodeKeyBytes(csid, <<"pub", csid>>, <<"prv", csid>>)

MarshalKeys(ks) == Object(ks, LAMBDA k : Base32(k.pub))
KeysFromJSON(o) == FromObject(o, LAMBDA c, text : DecodeKey(c, text, Base32(<<>>)))
UnmarshalKeys(o) == KeysFromJSON(o)

MarshalPrivateKeys(ks) == Object(ks, LAMBDA k : [pub |-> Base32(k.pub), prv |-> Base32(k.prv)])
UnmarshalPrivateKeys(o) == FromObject(o, LAMBDA c, pair : DecodeKey(c, pair.pub, pair.prv))

MarshalParts(parts) == Object(parts, LAMBDA p : p)
PartsFromHeader(o) == FromObject(o, LAMBDA c, text : text)
UnmarshalParts(o) == PartsFromHeader(o)

\* The greatest CSID that both have, or 0.
SelectCSID(a, b) == Max({0} \cup (DOMAIN a \cap DOMAIN b))

-----------------------------------------------------------------------------
(* Hashnames                                                               *)

Sha(x) == [sha |-> x]
Intermediate(pub) == Base32(Sha(pub))

PartsFromKeys(ks) == [c \in DOMAIN ks |-> Intermediate(ks[c].pub)]

SortedIDs(parts) == SetToSortSeq(DOMAIN parts, LAMBDA x, y : x < y)

FromIntermediates(parts) ==
  IF parts = NoMap THEN None
  ELSE Base32(FoldLeft(LAMBDA buf, id : Sha(<<Sha(<<buf, id>>), DecodeString(parts[id])>>),
                       <<>>, SortedIDs(parts)))

FromKeys(ks) == FromIntermediates(PartsFromKeys(ks))

\* Mutant of WithPart: the part of the key that was sent is not filled in.
OnlyParts(id, pub, parts) == parts

\* The parts and the one of the public key.
WithPart(id, pub, parts) == (id :> Intermediate(pub)) @@ parts

FromKeyAndIntermediates(id, pub, parts) == FromIntermediates(WithPart(id, pub, parts))

\* NewIdentity fills in the parts of the keys.
NewIdentity(ks, parts) ==
  IF ks = NoMap THEN None
  ELSE LET all == PartsFromKeys(ks) @@ parts
       IN [hashname |-> FromIntermediates(all), keys |-> ks, parts |-> all]

LocalIdentity(ks) == NewIdentity(ks, NoMap)

-----------------------------------------------------------------------------
(* Learning                                                                *)

Learn(via, hn, ident) ==
  /\ learned' = learned \cup {[via |-> via, hn |-> hn, ident |-> ident]}
  /\ UNCHANGED <<keys, exchanges>>

\* th-keygen, or GenerateKeys; keys of other ciphers come with a file.
Generate(csids) ==
  /\ keys = NoMap
  /\ keys' = UnmarshalPrivateKeys(MarshalPrivateKeys([c \in csids |-> GenerateKey(c)]))
  /\ UNCHANGED <<learned, exchanges>>

\* Identity.MarshalJSON and UnmarshalJSON; the hashname in the text is not used.
ByIdentity ==
  LET local == LocalIdentity(keys)
      remote == NewIdentity(UnmarshalKeys(MarshalKeys(local.keys)), UnmarshalParts(MarshalParts(local.parts)))
  IN keys # NoMap /\ Learn("json", remote.hashname, remote)

\* EncryptHandshake puts the parts in the header; the hashname is derived from the key
\* and the parts, the identity when the handshake is applied.
ByHandshake(csid) ==
  LET parts == UnmarshalParts(MarshalParts(LocalIdentity(keys).parts))
      key == DecodeKeyBytes(csid, keys[csid].pub, <<>>)
  IN /\ csid \in DOMAIN keys \cap Ciphers
     /\ Learn("handshake", FromKeyAndIntermediates(csid, key.pub, parts), NewIdentity(csid :> key, parts))

\* introduceVia: a packet per key, with the parts of the others; true stands for its own.
KeyPacket(csid) ==
  LET parts == PartsFromKeys(keys)
  IN [header |-> MarshalParts([c \in DOMAIN parts \ {csid} |-> parts[c]]), body |-> keys[csid].pub]

\* handle_connect.
ByKeyPacket(csid) ==
  LET inner == KeyPacket(csid)
      parts == PartsFromHeader(inner.header)
      key == DecodeKeyBytes(csid, inner.body, <<>>)
  IN /\ csid \in DOMAIN keys
     /\ Learn("key packet", FromKeyAndIntermediates(csid, key.pub, parts), NewIdentity(csid :> key, parts))

\* TXT records "<csid><number>=<chunk>" in any order; resolveSRV sorts them as strings
\* and joins the chunks of a CSID.  Records that are something else are skipped.
TXT(ks) ==
  {[label |-> <<c, n>>, value |-> [chunk |-> n, of |-> Base32(ks[c].pub)]] : c \in DOMAIN ks, n \in 1..Chunks}

JoinedKey(c, txts) ==
  LET own == SetToSortSeq({t \in txts : t.label[1] = c}, LAMBDA x, y : x.label[2] < y.label[2])
      whole == own[1].value.of
  IN IF [i \in 1..Len(own) |-> own[i].value] = [i \in 1..Chunks |-> [chunk |-> i, of |-> whole]]
     THEN whole ELSE [junk |-> own]

\* A domain may lack records.  The identity is one of the keys alone, and is refused
\* unless its hashname is the one that the SRV record names.
BySRV(txts) ==
  LET hn == FromKeys(keys)
      data == [c \in {t.label[1] : t \in txts} |-> JoinedKey(c, txts)]
      good == {c \in DOMAIN data : DecodeString(data[c]) # None}
      ident == NewIdentity([c \in good |-> DecodeKey(c, data[c], Base32(<<>>))], NoMap)
  IN /\ keys # NoMap /\ txts # {}
     /\ ident # None
     /\ ident.hashname = hn
     /\ Learn("srv", hn, ident)

\* CreateExchange with what was learned; NewState fails for an unknown cipher.
CreateExchange(l, local) ==
  LET csid == SelectCSID([c \in local |-> GenerateKey(c)], l.ident.keys)
  IN /\ l \in learned /\ csid \in Ciphers
     /\ exchanges' = exchanges \cup {csid}
     /\ UNCHANGED <<keys, learned>>

-----------------------------------------------------------------------------

Init == keys = NoMap /\ learned = {} /\ exchanges = {}

Next ==
  \/ \E csids \in SUBSET (Ciphers \cup Unknown) \ {{}} : Generate(csids)
  \/ ByIdentity
  \/ \E csid \in Ciphers \cup Unknown : ByHandshake(csid) \/ ByKeyPacket(csid)
  \/ \E txts \in SUBSET TXT(keys) : BySRV(txts)
  \/ \E l \in learned : CreateExchange(l, Ciphers)

Spec == Init /\ [][Next]_vars

-----------------------------------------------------------------------------
(* Properties.                                                             *)

\* However an endpoint learns of another, it derives the hashname that the other derives
\* from its own keys, and holds an identity with that hashname whose keys are the other's
\* and which has a part for each of its keys: otherwise two exchanges would be kept for
\* one peer (FromIntermediates, FromKeyAndIntermediates, NewIdentity, the JSON of keys
\* and parts, handle_connect, resolveSRV).  A key that both can use is selected.
HashnamesAgree ==
  /\ \A l \in learned :
       /\ l.hn = FromKeys(keys) /\ l.ident.hashname = l.hn
       /\ \A c \in DOMAIN l.ident.keys : l.ident.keys[c].pub = keys[c].pub
       /\ DOMAIN l.ident.parts = DOMAIN keys
  /\ exchanges \subseteq DOMAIN keys \cap Ciphers
=============================================================================
