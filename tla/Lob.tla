--------------------------------- MODULE Lob ---------------------------------
(***************************************************************************)
(* Packets (internal/lob) and the buffers and packets that are pooled      *)
(* (internal/util/bufpool): writing a header as JSON, the parser that      *)
(* reads it, and the life of a packet between New, Encode, Decode, Free.   *)
(*                                                                         *)
(* Bytes are symbols: the punctuation of JSON, "q" for a quotation mark,   *)
(* "esc" for a backslash, "sp" for white space, "nl" for a line feed in a  *)
(* string, "ctl" for another control character, "hi" for a character that  *)
(* is not printed and "<" for one that encoding/json escapes.  "u:x" is u  *)
(* with the four hexadecimal digits of x.  The names of the header's       *)
(* fields, true and false are a symbol each.  Numbers have Radix 2.        *)
(***************************************************************************)
EXTENDS Integers, Sequences, SequencesExt, FiniteSets, FiniteSetsExt, TLC

CONSTANTS
  None,
  Pkts, Buffers,  \* what the pools hold
  Headers,        \* headers that are set (no key of Extra is the name of a field)
  Bodies,         \* bodies of packets, sequences of symbols
  Values,         \* values that JSON can hold
  Wrap,           \* 2^32
  MaxWires,       \* bound: encoded packets that are not yet decoded
  MinJSON         \* shortest header that is JSON (7)

VARIABLES
  packet,   \* of each packet: in the pool or not, header, body (a buffer or None), and
            \* what it was decoded from (ghost)
  buffer,   \* of each buffer: flags (1 in the pool) and bytes
  sent,     \* ghost: the header and body that a buffer was encoded from, or None
  refused,  \* headers of packets that Decode has refused
  panic     \* an access to a buffer that is in the pool

vars == <<packet, buffer, sent, refused, panic>>

\* A field of the header is the empty set, or holds its one value.
NoHeader == [c |-> {}, type |-> {}, end |-> {}, seq |-> {}, ack |-> {}, miss |-> {},
             extra |-> <<>>, bytes |-> <<>>]

-----------------------------------------------------------------------------
(* Writing                                                                 *)

RECURSIVE Digits(_)
Digits(n) == IF n < 2 THEN <<ToString(n)>> ELSE Digits(n \div 2) \o <<ToString(n % 2)>>

\* "%q" of fmt: control characters without a letter of their own become \x01.
Quoted(c) ==
  CASE c \in {"q", "esc"} -> <<"esc", c>>
    [] c = "nl"  -> <<"esc", "n">>
    [] c = "hi"  -> <<"esc", "u:hi">>
    [] c = "ctl" -> <<"esc", "x", "0", "1">>
    [] OTHER     -> <<c>>

\* The strings of encoding/json.
Escaped(c) ==
  CASE c = "ctl" -> <<"esc", "u:ctl">>
    [] c = "<"   -> <<"esc", "u:<">>
    [] OTHER     -> Quoted(c)

Chars(s, Enc(_)) == <<"q">> \o FlattenSeq([i \in 1..Len(s) |-> Enc(s[i])]) \o <<"q">>

Joined(parts) ==
  FlattenSeq([i \in 1..Len(parts) |-> IF i = 1 THEN parts[i] ELSE <<",">> \o parts[i]])

\* json.Encoder: a value is a string, a number of one of Go's types, a boolean, a slice
\* of one of Go's types or a map with one key.
RECURSIVE Marshal(_)
Marshal(v) ==
  CASE "str"  \in DOMAIN v -> Chars(v.str, Escaped)
    [] "num"  \in DOMAIN v -> IF v.num < 0 THEN <<"-">> \o Digits(-v.num) ELSE Digits(v.num)
    [] "bool" \in DOMAIN v -> <<IF v.bool THEN "true" ELSE "false">>
    [] "arr"  \in DOMAIN v ->
         <<"[">> \o Joined([i \in 1..Len(v.arr) |-> Marshal(v.arr[i])]) \o <<"]">>
    [] "key"  \in DOMAIN v -> <<"{">> \o Chars(v.key, Escaped) \o <<":">> \o Marshal(v.val) \o <<"}">>

\* What a value is after it was marshalled and unmarshalled.
RECURSIVE Norm(_)
Norm(v) ==
  CASE "num" \in DOMAIN v -> [num |-> v.num, go |-> "float64"]
    [] "arr" \in DOMAIN v -> [arr |-> [i \in 1..Len(v.arr) |-> Norm(v.arr[i])], go |-> "interface{}"]
    [] "key" \in DOMAIN v -> [key |-> v.key, val |-> Norm(v.val)]
    [] OTHER              -> v

Member(name, value) == <<"q", name, "q", ":">> \o value

IsZero(h) == [h EXCEPT !.miss = @ \ {<<>>}] = NoHeader

\* The fields in their order, then Extra in the order in which the map is ranged over.
WriteTo(h, order) ==
  LET Field(o, name, Enc(_)) == IF o = {} THEN <<>> ELSE <<Member(name, Enc(CHOOSE x \in o : TRUE))>>
      Type(s) == Chars(s, Quoted)
      End(b) == <<IF b THEN "true" ELSE "false">>
      Miss(l) == <<"[">> \o Joined([i \in 1..Len(l) |-> Digits(l[i])]) \o <<"]">>
      Extra(k) == Chars(k, Quoted) \o <<":">> \o Marshal(h.extra[k]) \o <<"sp">>
  IN <<"{">>
     \o Joined(Field(h.c, "c", Digits) \o Field(h.type, "type", Type) \o Field(h.end, "end", End)
               \o Field(h.seq, "seq", Digits) \o Field(h.ack, "ack", Digits)
               \o Field(h.miss \ {<<>>}, "miss", Miss)
               \o [i \in 1..Len(order) |-> Extra(order[i])])
     \o <<"}">>

-----------------------------------------------------------------------------
(* Reading: each parser takes p and returns whether it succeeded, what it  *)
(* read and what is left.                                                  *)

Fail == [ok |-> FALSE]
Got(v, p) == [ok |-> TRUE, v |-> v, p |-> p]

\* The parser Rest takes what r has read and what r has left.
Then(r, Rest(_, _)) == IF r.ok THEN Rest(r.v, r.p) ELSE Fail

\* White space only is not skipped (scanSpace returns 0).
SkipSpace(p) ==
  LET rest == {i \in 1..Len(p) : p[i] # "sp"}
  IN IF p = <<>> \/ Head(p) # "sp" \/ rest = {} THEN p ELSE SubSeq(p, Min(rest), Len(p))

ParsePrefix(p, prefix) ==
  LET Strip(s) ==
        IF IsPrefix(prefix, s) THEN Got(prefix, SubSeq(s, Len(prefix) + 1, Len(s))) ELSE Fail
  IN Strip(SkipSpace(p))

\* Mutant of ClosingQuote: an escaped quotation mark ends the string.
RECURSIVE AnyQuote(_, _)
AnyQuote(p, i) ==
  IF i > Len(p) THEN 0 ELSE IF p[i] = "q" THEN i ELSE AnyQuote(p, i + 1)

\* Where the string ends that began before i, or 0.
RECURSIVE ClosingQuote(_, _)
ClosingQuote(p, i) ==
  IF i > Len(p) THEN 0
  ELSE IF p[i] = "esc" THEN ClosingQuote(p, i + 2)
  ELSE IF p[i] = "q" THEN i ELSE ClosingQuote(p, i + 1)

ScanString(p) ==
  LET Cut(s, end) ==
        IF end = 0 THEN Fail ELSE Got(SubSeq(s, 2, end - 1), SubSeq(s, end + 1, Len(s)))
      Scan(s) == Cut(s, IF s = <<>> \/ s[1] # "q" THEN 0 ELSE ClosingQuote(s, 2))
  IN Scan(SkipSpace(p))

\* The characters that escapes stand for (the buffer is rewritten in place; no caller
\* decodes it again).
Unescaped == "q" :> "q" @@ "esc" :> "esc" @@ "n" :> "nl"
             @@ "u:hi" :> "hi" @@ "u:ctl" :> "ctl" @@ "u:<" :> "<"

RECURSIVE Unescape(_)
Unescape(v) ==
  CASE v = <<>>        -> Got(<<>>, <<>>)
    [] v # <<>> /\ Head(v) # "esc" ->
         Then(Unescape(Tail(v)), LAMBDA t, end : Got(<<Head(v)>> \o t, end))
    [] OTHER ->
         IF Len(v) < 2 \/ v[2] \notin DOMAIN Unescaped THEN Fail
         ELSE Then(Unescape(SubSeq(v, 3, Len(v))),
                   LAMBDA t, end : Got(<<Unescaped[v[2]]>> \o t, end))

ParseString(p) ==
  Then(ScanString(p), LAMBDA v, rest : Then(Unescape(v), LAMBDA u, end : Got(u, rest)))

ParseBool(p) ==
  LET t == ParsePrefix(p, <<"true">>)
      f == ParsePrefix(p, <<"false">>)
  IN IF t.ok THEN Got(TRUE, t.p) ELSE IF f.ok THEN Got(FALSE, f.p) ELSE Fail

\* A number wraps; it ends at white space or at the end of its value.
ParseUint32(p) ==
  LET Number(ds) == FoldLeft(LAMBDA v, d : (2 * v + (IF d = "1" THEN 1 ELSE 0)) % Wrap, 0, ds)
      Ended(v, rest) ==
        IF rest # <<>> /\ Head(rest) \in {"]", "}", ","} THEN Got(v, rest) ELSE Fail
      Read(s) ==
        LET other == {i \in 1..Len(s) : s[i] \notin {"0", "1"}}
            n == IF other = {} THEN 0 ELSE Min(other) - 1
        IN IF n = 0 THEN Fail
           ELSE Ended(Number(SubSeq(s, 1, n)), SkipSpace(SubSeq(s, n + 1, Len(s))))
  IN Read(SkipSpace(p))

\* After an element of a list: a comma and More of them, or the end of the list.
ParseNext(p, close, More(_), Done(_)) ==
  LET comma == ParsePrefix(p, <<",">>)
  IN IF comma.ok THEN More(comma.p)
     ELSE Then(ParsePrefix(p, <<close>>), LAMBDA c, rest : Done(rest))

RECURSIVE ParseMissList(_, _)
ParseMissList(l, p) ==
  Then(ParseUint32(p), LAMBDA n, rest :
    ParseNext(rest, "]", LAMBDA r : ParseMissList(Append(l, n), r),
                         LAMBDA r : Got(Append(l, n), r)))

ParseMiss(p) == Then(ParsePrefix(p, <<"[">>), LAMBDA b, rest : ParseMissList(<<>>, rest))

\* The first of the stops, from i on, that is outside strings, objects and arrays, or 0.
RECURSIVE ScanTo(_, _, _)
ScanTo(p, i, stops) ==
  IF i > Len(p) THEN 0
  ELSE IF p[i] \in stops THEN i
  ELSE LET end == CASE p[i] = "q" -> ClosingQuote(p, i + 1)
                    [] p[i] = "{" -> ScanTo(p, i + 1, {"}"})
                    [] p[i] = "[" -> ScanTo(p, i + 1, {"]"})
                    [] OTHER      -> i
       IN IF end = 0 THEN 0 ELSE ScanTo(p, end + 1, stops)

ScanAnyObjectValue(p) ==
  LET end == ScanTo(p, 1, {",", "}"})
  IN IF end = 0 THEN Fail ELSE Got(SubSeq(p, 1, end - 1), SubSeq(p, end, Len(p)))

\* encoding/json: the value that is written so.
Unmarshal(raw) ==
  LET read == {v \in {Norm(x) : x \in Values} : Marshal(v) = SelectSeq(raw, LAMBDA s : s # "sp")}
  IN IF read = {} THEN Fail ELSE Got(CHOOSE v \in read : TRUE, <<>>)

ParseOther(p) ==
  Then(ScanAnyObjectValue(p), LAMBDA raw, rest : Then(Unmarshal(raw), LAMBDA v, end : Got(v, rest)))

\* The key of a member: the name of a field, or a string.
ParseKey(p) ==
  LET Known(name) == ParsePrefix(p, <<"q", name, "q">>)
      names == {n \in {"c", "seq", "ack", "miss", "type", "end"} : Known(n).ok}
      Field(name) == Got([field |-> name, str |-> <<>>], Known(name).p)
  IN IF names # {} THEN Field(CHOOSE n \in names : TRUE)
     ELSE Then(ParseString(p), LAMBDA s, rest : Got([field |-> "other", str |-> s], rest))

ParseValue(field, p) ==
  CASE field \in {"c", "seq", "ack"} -> ParseUint32(p)
    [] field = "miss" -> ParseMiss(p)
    [] field = "type" -> ParseString(p)
    [] field = "end"  -> ParseBool(p)
    [] OTHER          -> ParseOther(p)

\* The members of the object, one after the other; what follows the object is ignored.
RECURSIVE ParseMembers(_, _)
ParseMembers(h, p) ==
  LET Set(key, v) == IF key.field = "other" THEN [h EXCEPT !.extra = (key.str :> v) @@ @]
                     ELSE [h EXCEPT ![key.field] = {v}]
      Value(key, q) ==
        Then(ParseValue(key.field, q), LAMBDA v, rest :
          ParseNext(rest, "}", LAMBDA r : ParseMembers(Set(key, v), r),
                               LAMBDA r : Got(Set(key, v), r)))
  IN Then(ParseKey(p), LAMBDA key, q :
       Then(ParsePrefix(q, <<":">>), LAMBDA colon, r : Value(key, r)))

ParseHeader(h, p) == Then(ParsePrefix(p, <<"{">>), LAMBDA b, rest : ParseMembers(h, rest))

-----------------------------------------------------------------------------
(* Values of the header                                                    *)

Get(h, k) == IF k \in DOMAIN h.extra THEN {h.extra[k]} ELSE {}

GetString(h, k) == {v.str : v \in {x \in Get(h, k) : "str" \in DOMAIN x}}

GetBool(h, k) == {v.bool : v \in {x \in Get(h, k) : "bool" \in DOMAIN x}}

GetInt(h, k) == {v.num : v \in {x \in Get(h, k) : "num" \in DOMAIN x}}

GetUint32(h, k) == {n % Wrap : n \in {x \in GetInt(h, k) : x >= 0}}

\* Of a slice of interface{} that holds values of type int.
GetUint32Slice(h, k) ==
  {[i \in 1..Len(v.arr) |-> v.arr[i].num] :
     v \in {x \in Get(h, k) : /\ "arr" \in DOMAIN x /\ x.go = "interface{}"
                              /\ \A i \in 1..Len(x.arr) : /\ "num" \in DOMAIN x.arr[i]
                                                          /\ x.arr[i].go = "int" /\ x.arr[i].num >= 0}}

-----------------------------------------------------------------------------
(* The pools                                                               *)

Free(b) == buffer[b].flags = 1

\* Buffer.New takes a buffer of the pool and writes bytes to it.
Taken(b, bytes) == [buffer EXCEPT ![b] = [flags |-> 0, bytes |-> bytes]]

\* Buffer.Free of the buffers bs.
Freed(bs) == [b \in Buffers |-> IF b \in bs THEN [flags |-> 1, bytes |-> <<>>] ELSE buffer[b]]

Body(p) == IF packet[p].body = None THEN <<>> ELSE buffer[packet[p].body].bytes

New(p, body, b) ==
  /\ packet[p].pooled
  /\ IF body = <<>>
     THEN packet' = [packet EXCEPT ![p].pooled = FALSE] /\ UNCHANGED buffer
     ELSE /\ Free(b)
          /\ packet' = [packet EXCEPT ![p].pooled = FALSE, ![p].body = b]
          /\ buffer' = Taken(b, body)
  /\ UNCHANGED <<sent, refused, panic>>

\* Done once, by the one who made the packet.
SetHeader(p, h) ==
  /\ ~packet[p].pooled /\ packet[p].of = None /\ packet[p].header = NoHeader
  /\ packet' = [packet EXCEPT ![p].header = h]
  /\ UNCHANGED <<buffer, sent, refused, panic>>

\* A header that is too short to be told from a binary one, and a binary one that is too
\* long, are errors.
Encode(p, b, order) ==
  LET h == packet[p].header
      hdr == IF IsZero(h) THEN <<>> ELSE IF h.bytes = <<>> THEN WriteTo(h, order) ELSE h.bytes
  IN /\ ~packet[p].pooled /\ Free(b)
     /\ Cardinality({d \in Buffers : sent[d] # None}) < MaxWires
     /\ hdr # <<>> => (h.bytes = <<>>) = (Len(hdr) >= MinJSON)
     /\ buffer' = Taken(b, <<ToString(Len(hdr))>> \o hdr \o Body(p))
     /\ sent' = [sent EXCEPT ![b] = [header |-> h, body |-> Body(p)]]
     /\ panic' = (panic \/ (packet[p].body # None /\ Free(packet[p].body)))
     /\ UNCHANGED <<packet, refused>>

\* A packet of the pool is filled in; one whose header is not valid goes back.  The
\* caller frees the buffer.
Decode(d, p, b) ==
  LET bytes == buffer[d].bytes
      length == CHOOSE n \in 0..Len(bytes) : ToString(n) = bytes[1]
      head == SubSeq(bytes, 2, length + 1)
      body == SubSeq(bytes, length + 2, Len(bytes))
      pooled == packet[p].header
      Parsed == IF length >= MinJSON THEN ParseHeader(pooled, head)
                ELSE Got(IF head = <<>> THEN pooled ELSE [pooled EXCEPT !.bytes = head], <<>>)
  IN /\ sent[d] # None /\ packet[p].pooled
     /\ \E parsed \in {Parsed} :
          /\ parsed.ok /\ body # <<>> => Free(b)
          /\ packet' = [packet EXCEPT ![p] =
               IF parsed.ok THEN [pooled |-> FALSE, header |-> parsed.v, of |-> sent[d],
                                  body |-> IF body = <<>> THEN None ELSE b]
               ELSE [@ EXCEPT !.header = NoHeader]]
          /\ buffer' = IF parsed.ok /\ body # <<>>
                       THEN [Freed({d}) EXCEPT ![b] = Taken(b, body)[b]] ELSE Freed({d})
          /\ refused' = IF parsed.ok THEN refused ELSE refused \cup {sent[d].header}
     /\ sent' = [sent EXCEPT ![d] = None]
     /\ panic' = (panic \/ Free(d))

\* Mutant of FreePacket: the header stays with the packet.
FreeKeepsHeader(p) ==
  /\ ~packet[p].pooled
  /\ packet' = [packet EXCEPT ![p] = [@ EXCEPT !.pooled = TRUE, !.body = None, !.of = None]]
  /\ buffer' = Freed({packet[p].body} \ {None})
  /\ UNCHANGED <<sent, refused, panic>>

FreePacket(p) ==
  /\ ~packet[p].pooled
  /\ packet' = [packet EXCEPT ![p] = [pooled |-> TRUE, header |-> NoHeader, body |-> None, of |-> None]]
  /\ buffer' = Freed({packet[p].body} \ {None})
  /\ UNCHANGED <<sent, refused, panic>>

-----------------------------------------------------------------------------

Init ==
  /\ packet = [p \in Pkts |-> [pooled |-> TRUE, header |-> NoHeader, body |-> None, of |-> None]]
  /\ buffer = [b \in Buffers |-> [flags |-> 1, bytes |-> <<>>]]
  /\ sent = [b \in Buffers |-> None]
  /\ refused = {} /\ panic = FALSE

Orders(h) == SetToSeqs(DOMAIN h.extra)

Next ==
  \/ \E p \in Pkts, b \in Buffers, body \in Bodies : New(p, body, b)
  \/ \E p \in Pkts, h \in Headers : SetHeader(p, h)
  \/ \E p \in Pkts, b \in Buffers : \E order \in Orders(packet[p].header) : Encode(p, b, order)
  \/ \E d, b \in Buffers, p \in Pkts : Decode(d, p, b)
  \/ \E p \in Pkts : FreePacket(p)

Spec == Init /\ [][Next]_vars

-----------------------------------------------------------------------------
(* Properties.                                                             *)

\* What JSON makes of a header.
Received(h) == [h EXCEPT !.extra = [k \in DOMAIN h.extra |-> Norm(h.extra[k])],
                         !.miss = @ \ {<<>>}]

\* "%q" writes all its strings the way JSON does.
Printable(h) ==
  \A s \in h.type \cup DOMAIN h.extra : \A i \in 1..Len(s) : s[i] # "ctl"

\* A packet that was decoded has the header and the body of the packet that was
\* encoded, whatever its strings hold and whatever its packet and buffers were used for
\* before, and the accessors of the header find the same values on both sides; a packet
\* is refused only for a control character in its type or in a key; and no buffer is
\* used that is in the pool (Encode, Decode, parseHeader, Free).
DecodedIsSent ==
  /\ ~panic
  /\ \A h \in refused : ~Printable(h)
  /\ \A p \in Pkts : packet[p].of # None =>
       LET h == packet[p].header
           o == packet[p].of.header
       IN /\ h = Received(o) /\ Body(p) = packet[p].of.body
          /\ \A k \in DOMAIN o.extra :
               /\ GetString(h, k) = GetString(o, k) /\ GetBool(h, k) = GetBool(o, k)
               /\ GetInt(h, k) = GetInt(o, k) /\ GetUint32(h, k) = GetUint32(o, k)
               /\ GetUint32Slice(h, k) = GetUint32Slice(o, k)
=============================================================================
