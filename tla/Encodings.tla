------------------------------ MODULE Encodings ------------------------------
(***************************************************************************)
(* The texts of keys and hashnames: compressed points of the curve of CS1a *)
(* (e3x/cipherset/cs1a/eccp), and base32 without padding                   *)
(* (internal/util/base32util).                                             *)
(*                                                                         *)
(* A curve is y^2 = x^3 - 3x + b over the integers modulo a prime; that of *)
(* the code has 160 bits, those here a few, and leave the same remainder   *)
(* modulo four.  A byte is a number below ByteBase, of ByteBits bits.      *)
(***************************************************************************)
EXTENDS Integers, Sequences, SequencesExt

CONSTANTS
  None,       \* no value yet
  Primes,     \* three modulo four
  ByteBits,
  MaxBytes    \* bound: length of what is encoded to base32

VARIABLES
  given,      \* a point and its curve, or a number of bytes
  encoded,    \* what was made of it; None: nothing yet
  decoded     \* what was made of that

vars == <<given, encoded, decoded>>

Error == <<"error">>
ByteBase == 2 ^ ByteBits

-----------------------------------------------------------------------------
(* eccp                                                                    *)

BitLen(n) == CHOOSE k \in 0..n : 2 ^ k > n /\ \A j \in 0..(k - 1) : 2 ^ j <= n
Bit(n, i) == (n \div 2 ^ i) % 2
ByteLen(p) == (BitLen(p) + ByteBits - 1) \div ByteBits

\* big.Int.Bytes has no leading zeros; Marshal aligns them to the right.
Bytes(n) ==
  LET len == (BitLen(n) + ByteBits - 1) \div ByteBits
  IN [i \in 1..len |-> (n \div ByteBase ^ (len - i)) % ByteBase]
Padded(n, len) == [i \in 1..(len - Len(Bytes(n))) |-> 0] \o Bytes(n)
SetBytes(bs) == FoldLeft(LAMBDA n, d : n * ByteBase + d, 0, bs)

Marshal(p, x, y) == <<2 + Bit(y, 0)>> \o Padded(x, ByteLen(p))

\* elliptic.Marshal and elliptic.Unmarshal, of uncompressed points.
MarshalWhole(p, x, y) == <<4>> \o Padded(x, ByteLen(p)) \o Padded(y, ByteLen(p))
UnmarshalWhole(p, data) ==
  LET n == ByteLen(p)
  IN IF Len(data) # 1 + 2 * n \/ data[1] # 4 THEN Error
     ELSE <<SetBytes(SubSeq(data, 2, n + 1)), SetBytes(SubSeq(data, n + 2, 2 * n + 1))>>

\* Mutant of modSqrt: one bit more.
modSqrtLong(a, p) ==
  LET top == BitLen(p + 1)
      result[i \in 1..top] ==
        IF i = top THEN 1
        ELSE LET square == (result[i + 1] * result[i + 1]) % p
             IN IF Bit(p + 1, i) = 1 THEN (square * a) % p ELSE square
  IN result[1]

\* Square and multiply over the bits of p + 1 but the last two: the power (p + 1) / 4.
modSqrt(a, p) ==
  LET top == BitLen(p + 1)
      result[i \in 2..top] ==
        IF i = top THEN 1
        ELSE LET square == (result[i + 1] * result[i + 1]) % p
             IN IF Bit(p + 1, i) = 1 THEN (square * a) % p ELSE square
  IN result[2]

\* Of the two roots, the one that the header says.
Unmarshal(p, b, data) ==
  IF Len(data) # 1 + ByteLen(p) \/ data[1] \notin {2, 3} THEN UnmarshalWhole(p, data)
  ELSE LET x == SetBytes(Tail(data))
           square == (((x * x - 3) % p) * x + b) % p
           y == modSqrt(square, p)
       IN <<x, IF Bit(y, 0) = data[1] % 2 THEN y ELSE p - y>>

-----------------------------------------------------------------------------
(* base32util: a text is the number of its characters and of its padding.  *)

\* base32.StdEncoding: eight characters for five bytes; a last group is padded to eight.
StdEncode(n) == [chars |-> (8 * n + 4) \div 5, pads |-> 8 * ((n + 4) \div 5) - (8 * n + 4) \div 5, upper |-> TRUE]
StdDecode(t) ==
  IF ~t.upper \/ (t.chars + t.pads) % 8 # 0 \/ t.pads > 7 THEN Error ELSE <<"bytes", (5 * t.chars) \div 8>>

removePadding(t) == [t EXCEPT !.pads = 0]

addPadding(t) ==
  LET rem == t.chars % 8 IN [t EXCEPT !.pads = IF rem = 0 THEN 0 ELSE 8 - rem]

EncodeToString(n) == [removePadding(StdEncode(n)) EXCEPT !.upper = FALSE]
DecodeString(t) == StdDecode(addPadding([t EXCEPT !.upper = TRUE]))

\* Small letters and the digits from 2 to 7.
ValidString(t) == ~t.upper /\ t.pads = 0

-----------------------------------------------------------------------------
Points ==
  {c \in UNION {[p : {p}, b : 0..(p - 1), x : 0..(p - 1), y : 0..(p - 1)] : p \in Primes} :
       (c.y * c.y - (c.x * c.x - 3) * c.x - c.b) % c.p = 0}

IsPoint == "p" \in DOMAIN given

Encode ==
  /\ encoded = None
  /\ encoded' \in IF IsPoint THEN {Marshal(given.p, given.x, given.y), MarshalWhole(given.p, given.x, given.y)}
                  ELSE {EncodeToString(given.bytes), StdEncode(given.bytes)}
  /\ UNCHANGED <<given, decoded>>

Decode ==
  /\ encoded # None /\ decoded = None
  /\ decoded' = IF IsPoint THEN Unmarshal(given.p, given.b, encoded) ELSE DecodeString(encoded)
  /\ UNCHANGED <<given, encoded>>

Init ==
  /\ given \in Points \cup [bytes : 0..MaxBytes]
  /\ encoded = None /\ decoded = None

Next == Encode \/ Decode

Spec == Init /\ [][Next]_vars

-----------------------------------------------------------------------------
(* Properties.                                                             *)

\* A key is read as it was written: every point of every curve, from its compressed and
\* its whole form, and bytes of every length, from base32 with and without padding, in
\* either case; base32 of this code is valid for ValidString (Marshal, Unmarshal, modSqrt,
\* EncodeToString, DecodeString).
DecodedIsEncoded ==
  /\ decoded # None => decoded = IF IsPoint THEN <<given.x, given.y>> ELSE <<"bytes", given.bytes>>
  /\ ~IsPoint => ValidString(EncodeToString(given.bytes))
=============================================================================
