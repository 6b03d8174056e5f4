----------------------------- MODULE Handshake -----------------------------
(***************************************************************************)
(* The handshakes two endpoints exchange (e3x/exchange.go, and what        *)
(* cs3a_cipher.go does with an accepted one): the sequence numbers, their  *)
(* parity, and the line key each side holds of the other.                  *)
(*                                                                         *)
(* The network keeps every handshake that was ever sent, so it may lose,   *)
(* repeat, delay and reorder them.  An endpoint may restart, or let the    *)
(* exchange expire and make a new one: the new incarnation has a new line  *)
(* key and blank sequence numbers.                                         *)
(***************************************************************************)
EXTENDS Naturals, FiniteSets

CONSTANTS
  MaxSeconds,            \* bound of the clock
  HighSends, LowSends,   \* bounds: handshakes an incarnation generates
  HighIncarnations, LowIncarnations   \* bounds: incarnations of each side

Parties == {"high", "low"}
Other(p) == IF p = "high" THEN "low" ELSE "high"
MaxSends(p) == IF p = "high" THEN HighSends ELSE LowSends
MaxIncarnation(p) == IF p = "high" THEN HighIncarnations ELSE LowIncarnations

VARIABLES
  seconds,        \* Unix seconds, the clock of both sides
  incarnation,    \* which line key each side uses
  open,           \* the exchange has accepted a handshake
  lastLocalSeq, lastRemoteSeq, nextSeq,
  remoteLine,     \* incarnation of the peer whose line key is held; 0: none
  net,            \* handshakes sent
  requests,       \* seqs of the requests each incarnation generated
  sends           \* how many it generated

handshakeVars == <<seconds, incarnation, open, lastLocalSeq, lastRemoteSeq, nextSeq,
                   remoteLine, net, requests, sends>>

\* Mutant of IsLocalSeq: both sides use odd numbers.
IsOddSeq(p, seq) == seq % 2 = 1

\* The side with the higher key uses odd numbers.
IsLocalSeq(p, seq) == IF p = "high" THEN seq % 2 = 1 ELSE seq % 2 = 0

AtLeast(m, n) == IF n < m THEN m ELSE n
After(last, n) == IF n < last THEN last + 1 ELSE n

\* Mutant of GetNextSeq: nextSeq is ignored.
GetNextSeqByClock(p) ==
  LET fresh == AtLeast(1, After(lastRemoteSeq[p], After(lastLocalSeq[p], seconds)))
  IN IF IsLocalSeq(p, fresh) THEN fresh ELSE fresh + 1

GetNextSeq(p) ==
  LET clock == AtLeast(seconds, nextSeq[p])
      fresh == AtLeast(1, After(lastRemoteSeq[p], After(lastLocalSeq[p], clock)))
  IN IF IsLocalSeq(p, fresh) THEN fresh ELSE fresh + 1

Message(p, seq) == [to |-> Other(p), seq |-> seq, line |-> incarnation[p]]

\* deliverHandshake, Dial and GenerateHandshake: a request with a new seq.
deliverHandshake(p) ==
  LET seq == GetNextSeq(p)
  IN /\ sends[p] < MaxSends(p)
     /\ net' = net \cup {Message(p, seq)}
     /\ nextSeq' = [nextSeq EXCEPT ![p] = seq + 2]
     /\ lastLocalSeq' = [lastLocalSeq EXCEPT ![p] = AtLeast(seq, @)]
     /\ requests' = [requests EXCEPT ![p] = @ \cup {seq}]
     /\ sends' = [sends EXCEPT ![p] = @ + 1]
     /\ UNCHANGED <<seconds, incarnation, open, lastRemoteSeq, remoteLine>>

\* The cipher adopts the line key of the handshake, whatever line it had.
NewLine(p, m) == [remoteLine EXCEPT ![p] = m.line]

\* A handshake with one of the receiver's own numbers is a response; any other is
\* a request, and is answered with the same number.
applyHandshake(p, m) ==
  /\ m.to = p
  /\ m.seq >= lastRemoteSeq[p]
  /\ remoteLine' = NewLine(p, m)
  /\ open' = [open EXCEPT ![p] = TRUE]
  /\ \/ IsLocalSeq(p, m.seq) /\ UNCHANGED <<net, lastLocalSeq>>
     \/ /\ ~IsLocalSeq(p, m.seq)
        /\ net' = net \cup {Message(p, m.seq)}
        /\ lastLocalSeq' = [lastLocalSeq EXCEPT ![p] = AtLeast(m.seq, @)]
  /\ UNCHANGED <<seconds, incarnation, nextSeq, requests, sends>>

receivedHandshake(p, m) ==
  /\ applyHandshake(p, m)
  /\ lastRemoteSeq' = [lastRemoteSeq EXCEPT ![p] = m.seq]

\* A handshake that came through a bridge does not count as received.
OutOfBandHandshake(p, m) ==
  /\ applyHandshake(p, m)
  /\ UNCHANGED lastRemoteSeq

\* newExchange of a new incarnation.
newExchange(p) ==
  /\ incarnation[p] < MaxIncarnation(p)
  /\ incarnation' = [incarnation EXCEPT ![p] = @ + 1]
  /\ open' = [open EXCEPT ![p] = FALSE]
  /\ lastLocalSeq' = [lastLocalSeq EXCEPT ![p] = 0]
  /\ lastRemoteSeq' = [lastRemoteSeq EXCEPT ![p] = 0]
  /\ nextSeq' = [nextSeq EXCEPT ![p] = 0]
  /\ remoteLine' = [remoteLine EXCEPT ![p] = 0]
  /\ requests' = [requests EXCEPT ![p] = {}]
  /\ sends' = [sends EXCEPT ![p] = 0]
  /\ UNCHANGED <<seconds, net>>

SecondPasses ==
  /\ seconds < MaxSeconds
  /\ seconds' = seconds + 1
  /\ UNCHANGED <<incarnation, open, lastLocalSeq, lastRemoteSeq, nextSeq, remoteLine,
                 net, requests, sends>>

HandshakeInit ==
  /\ seconds = 0
  /\ incarnation = [p \in Parties |-> 1]
  /\ open = [p \in Parties |-> FALSE]
  /\ lastLocalSeq = [p \in Parties |-> 0]
  /\ lastRemoteSeq = [p \in Parties |-> 0]
  /\ nextSeq = [p \in Parties |-> 0]
  /\ remoteLine = [p \in Parties |-> 0]
  /\ net = {}
  /\ requests = [p \in Parties |-> {}]
  /\ sends = [p \in Parties |-> 0]

HandshakeNext ==
  \/ \E p \in Parties : deliverHandshake(p) \/ newExchange(p)
  \/ \E p \in Parties : \E m \in net : receivedHandshake(p, m) \/ OutOfBandHandshake(p, m)
  \/ SecondPasses

HandshakeSpec == HandshakeInit /\ [][HandshakeNext]_handshakeVars

-----------------------------------------------------------------------------
(* Properties.                                                             *)

\* The requests of an incarnation have distinct, nonzero numbers of its own
\* parity, however they interleave with the peer's (getNextSeq).
SeqsAreFresh ==
  \A p \in Parties : /\ Cardinality(requests[p]) = sends[p]
                  /\ \A s \in requests[p] : s # 0 /\ IsLocalSeq(p, s)

\* What a side takes for a response has the number of a request this side sent,
\* in this incarnation or an earlier one: a request of the peer is never taken
\* for a response (isLocalSeq).
ResponsesAnswerRequests ==
  \A m \in net : IsLocalSeq(m.to, m.seq)
    => \E r \in net : r.to = Other(m.to) /\ r.seq = m.seq /\ r.line <= incarnation[m.to]

\* The line key a side holds is one its peer really used, and an open exchange
\* holds one.
LineIsThePeers ==
  \A p \in Parties : /\ remoteLine[p] <= incarnation[Other(p)]
                  /\ open[p] => remoteLine[p] # 0

\* Handshake requests have fresh numbers of the side's parity, only the peer's answers are
\* taken for answers, and a side holds a line that its peer has used (exchange.go,
\* getNextSeq, isLocalSeq, applyHandshake).
HandshakesMatch == SeqsAreFresh /\ ResponsesAnswerRequests /\ LineIsThePeers
=============================================================================
