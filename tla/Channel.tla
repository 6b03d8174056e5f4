------------------------------ MODULE Channel ------------------------------
(***************************************************************************)
(* The reliable channel protocol of e3x/channel.go: the client and the     *)
(* server side of one channel and the network between them.                *)
(*                                                                         *)
(* Every operation that the code runs under c.mtx is one action.  Blocking *)
(* is the guard of the action (BlockWrite, BlockRead, BlockClose); the     *)
(* condition variables, the read and write deadlines and the timers that   *)
(* end a channel are modelled in ChannelSync.  The network keeps every     *)
(* packet ever sent: a packet may be received late, several times, in any  *)
(* order, or never, which is also how an error of deliverPacket looks to   *)
(* the two sides.  Lose makes a loss final, which only liveness can tell.  *)
(***************************************************************************)
EXTENDS Integers, Sequences, FiniteSets, MissList

CONSTANTS
  Data,              \* what the application puts in a packet
  NoData,            \* the body of the packet Close writes
  cWriteBufferSize,
  earlyAdHocAck,     \* unacked reads that make a read send an ack
  InlineAckPeriod,   \* every so many writes carry an ack header (30)
  ClientSeqs,        \* bound: packets the client writes, below 2^32 (no wrap)
  ServerSeqs,        \* bound: packets the server writes
  MayBreak,          \* bound: the sides that are killed or end in Error
  MayResend,         \* bound: the sides whose resend timer fires
  MayLose            \* bound: the sides whose incoming packets get lost

Side == {"client", "server"}

MaxSeq == [s \in Side |-> IF s = "client" THEN ClientSeqs ELSE ServerSeqs]

ASSUME DataAssumption == NoData \notin Data

ASSUME SizeAssumption ==
  /\ cReadBufferSize \in Nat /\ cReadBufferSize > 1
  /\ cWriteBufferSize \in 1..cReadBufferSize
  /\ earlyAdHocAck \in Nat \ {0}
  /\ InlineAckPeriod \in Nat \ {0}
  /\ MaxSeq \in [Side -> Nat]
  /\ MayBreak \subseteq Side
  /\ MayResend \subseteq Side
  /\ MayLose \subseteq Side

Peer(s) == IF s = "client" THEN "server" ELSE "client"

VARIABLES
  oSeq,         \* highest seq in the write stream
  iSeenSeq,     \* highest seen seq in the read stream
  iSeq,         \* highest seq read by the application
  oAckedSeq,    \* highest acked seq in the write stream
  iAckedSeq,    \* highest seq of the read stream that was acked
  deliveredEnd, \* the end packet was written
  readEnd,      \* the end packet was read
  needsResend,
  broken,
  closed,       \* Close returned nil
  readBuffer,   \* set of [seq, data, end]
  writeBuffer,  \* function from seq to [pkt, resent]
  resending,    \* seq of the packet resendLastPacket delivers unlocked, or 0
  net,          \* every packet ever sent
  written,      \* history: the packets written, in order
  readLog       \* history: the packets taken off the read buffer, in order

seqVars == <<oSeq, iSeenSeq, iSeq, oAckedSeq, iAckedSeq>>
flagVars == <<deliveredEnd, readEnd, needsResend, broken, closed>>
vars == <<seqVars, flagVars, readBuffer, writeBuffer, resending, net,
          written, readLog>>

Body == Data \cup {NoData}

\* seq = 0: no seq header; ack = 0: no ack header.  The miss header lists
\* deltas whose running sums, added to ack, are the missing seqs: it is the
\* set of those sums, {} when there is no miss header.
Packet == [to : Side, seq : Nat, data : Body, end : BOOLEAN,
           ack : Nat, miss : SUBSET Nat]

Content == [data : Body, end : BOOLEAN]

Larger(a, b) == IF a < b THEN b ELSE a

Restriction(f, S) == [x \in S |-> f[x]]

BufferedSeqs(s) == {e.seq : e \in readBuffer[s]}

-----------------------------------------------------------------------------
(* Blocking conditions.                                                    *)

\* Mutant of BlockWrite: room for one packet too many.
BlockWriteLate(s) ==
  \/ s = "server" /\ iSeq[s] = 0
  \/ s = "client" /\ iSeq[s] = 0 /\ oAckedSeq[s] = 0 /\ oSeq[s] >= 1
  \/ Cardinality(DOMAIN writeBuffer[s]) > cWriteBufferSize

BlockWrite(s) ==
  \/ s = "server" /\ iSeq[s] = 0
  \/ s = "client" /\ iSeq[s] = 0 /\ oAckedSeq[s] = 0 /\ oSeq[s] >= 1
  \/ Cardinality(DOMAIN writeBuffer[s]) >= cWriteBufferSize

\* Mutant of IsNext: the head of the buffer is read whatever its seq.
IsHead(s, e) == \A f \in readBuffer[s] : e.seq <= f.seq

\* The entry at the head of the sorted read buffer is the next one to read.
IsNext(s, e) ==
  /\ e.seq = iSeq[s] + 1
  /\ \A f \in readBuffer[s] : e.seq <= f.seq

BlockRead(s) ==
  \/ s = "server" /\ oSeq[s] = 0 /\ iSeq[s] >= 1
  \/ s = "client" /\ oSeq[s] = 0
  \/ ~ \E e \in readBuffer[s] : IsNext(s, e)

\* Mutant of BlockClose: it does not wait for the acks.
BlockCloseUnacked(s) == DOMAIN writeBuffer[s] # {}

BlockClose(s) == ~readEnd[s] \/ DOMAIN writeBuffer[s] # {}

-----------------------------------------------------------------------------
(* Acknowledgements.                                                       *)

\* Mutant of AckPacket: it acks one packet too few.
AckPrevious(s, read, miss) ==
  [to |-> Peer(s), seq |-> 0, data |-> NoData, end |-> FALSE,
   ack |-> read - 1, miss |-> IF read = 0 THEN {} ELSE miss]

AckPacket(s, read, miss) ==
  [to |-> Peer(s), seq |-> 0, data |-> NoData, end |-> FALSE,
   ack |-> read, miss |-> IF read = 0 THEN {} ELSE miss]

\* processMissingPackets and resendLastPacket refresh the headers of a
\* buffered packet: the ack always, the miss header only if there is one now.
Refreshed(pkt, read, miss) ==
  [pkt EXCEPT !.ack = IF read >= 1 THEN read ELSE @,
              !.miss = IF miss # {} THEN miss ELSE @]

-----------------------------------------------------------------------------
(* Writing.                                                                *)

\* Whether the next packet of s carries ack headers (applyAckHeaders).
CarriesAck(s, end) ==
  ((oSeq[s] + 1) % InlineAckPeriod = 0 \/ end) /\ iSeq[s] # 0

NewPacket(s, d, end) ==
  [to |-> Peer(s), seq |-> oSeq[s] + 1, data |-> d, end |-> end,
   ack |-> IF CarriesAck(s, end) THEN iSeq[s] ELSE 0,
   miss |-> IF CarriesAck(s, end)
            THEN BuildMissList(iSeq[s], iSeenSeq[s], BufferedSeqs(s))
            ELSE {}]

Write(s, d, end) ==
  LET n == oSeq[s] + 1
      entry == [pkt |-> NewPacket(s, d, end), resent |-> FALSE]
  IN /\ ~broken[s]
     /\ ~deliveredEnd[s]
     /\ oSeq[s] < MaxSeq[s]
     /\ oSeq' = [oSeq EXCEPT ![s] = n]
     /\ deliveredEnd' = [deliveredEnd EXCEPT ![s] = end]
     /\ iAckedSeq' = [iAckedSeq EXCEPT ![s] =
                        IF CarriesAck(s, end) THEN iSeq[s] ELSE @]
     /\ writeBuffer' = [writeBuffer EXCEPT ![s] =
          [k \in DOMAIN @ \cup {n} |-> IF k = n THEN entry ELSE @[k]]]
     /\ needsResend' = [needsResend EXCEPT ![s] = FALSE]
     /\ net' = net \cup {entry.pkt}
     /\ written' = [written EXCEPT ![s] = Append(@, [data |-> d, end |-> end])]
     /\ UNCHANGED <<iSeenSeq, iSeq, oAckedSeq, readEnd, closed, readBuffer,
                    resending, readLog>>

\* The application may set the end header on a packet of its own.
WritePacket(s, d, end) ==
  /\ ~BlockWrite(s)
  /\ Write(s, d, end)
  /\ UNCHANGED broken

\* Error writes the error as a packet and marks the channel as broken.
Error(s, d) ==
  /\ s \in MayBreak
  /\ ~BlockWrite(s)
  /\ Write(s, d, FALSE)
  /\ broken' = [broken EXCEPT ![s] = TRUE]

\* Mutant of ResendLastPacket: it never asks for a resend.
ResendNever(s) ==
  /\ s \in MayResend /\ resending[s] = 0
  /\ needsResend' = [needsResend EXCEPT ![s] = FALSE]
  /\ UNCHANGED <<seqVars, deliveredEnd, readEnd, broken, closed, readBuffer, writeBuffer,
                 resending, net, written, readLog>>

\* The timer asks for a resend; it delivers one if the last one asked too.
\* The packet is delivered after c.mtx is released: see DeliverResend.
ResendLastPacket(s) ==
  LET last == oSeq[s]
      miss == BuildMissList(iSeq[s], iSeenSeq[s], BufferedSeqs(s))
      resend == needsResend[s] /\ last \in DOMAIN writeBuffer[s]
  IN /\ s \in MayResend
     /\ resending[s] = 0
     /\ needsResend' = [needsResend EXCEPT ![s] = TRUE]
     /\ writeBuffer' = IF ~resend THEN writeBuffer
          ELSE [writeBuffer EXCEPT ![s][last] =
                  [pkt |-> Refreshed(@.pkt, iSeq[s], miss), resent |-> TRUE]]
     /\ resending' = [resending EXCEPT ![s] = IF resend THEN last ELSE 0]
     /\ UNCHANGED <<seqVars, deliveredEnd, readEnd, broken, closed, readBuffer,
                    net, written, readLog>>

\* The packet is encoded without c.mtx.  If an ack removed it from the write
\* buffer meanwhile, it was freed and its header and body may belong to
\* anything: the exchange drops it for want of a channel id, or it goes out
\* under its old header with a body that is no longer its own.
DeliverResend(s) ==
  LET n == resending[s]
  IN /\ n # 0
     /\ resending' = [resending EXCEPT ![s] = 0]
     /\ IF n \in DOMAIN writeBuffer[s]
        THEN net' = net \cup {writeBuffer[s][n].pkt}
        ELSE \/ UNCHANGED net
             \/ \E d \in Body :
                  net' = net \cup {[to |-> Peer(s), seq |-> n, data |-> d,
                                    end |-> FALSE, ack |-> 0, miss |-> {}]}
     /\ UNCHANGED <<seqVars, flagVars, readBuffer, writeBuffer, written, readLog>>

-----------------------------------------------------------------------------
(* Reading.                                                                *)

\* readPacket takes the head of the read buffer; the end packet and every
\* earlyAdHocAck-th unacked packet are acked at once.
ReadPacket(s) ==
  /\ ~broken[s]
  /\ ~readEnd[s]
  /\ ~BlockRead(s)
  /\ \E e \in readBuffer[s] :
       LET rest == readBuffer[s] \ {e}
           acks == e.end \/ e.seq - iAckedSeq[s] >= earlyAdHocAck
           miss == BuildMissList(e.seq, iSeenSeq[s], {f.seq : f \in rest})
       IN /\ IsNext(s, e)
          /\ iSeq' = [iSeq EXCEPT ![s] = @ + 1]
          /\ readBuffer' = [readBuffer EXCEPT ![s] = rest]
          /\ readEnd' = [readEnd EXCEPT ![s] = e.end]
          /\ iAckedSeq' = [iAckedSeq EXCEPT ![s] = IF acks THEN e.seq ELSE @]
          /\ net' = IF acks THEN net \cup {AckPacket(s, e.seq, miss)} ELSE net
          /\ readLog' = [readLog EXCEPT ![s] =
                           Append(@, [data |-> e.data, end |-> e.end])]
  /\ UNCHANGED <<oSeq, iSeenSeq, oAckedSeq, deliveredEnd, needsResend, broken,
                 closed, writeBuffer, resending, written>>

\* IndexOf is a binary search for the first entry that is not below seq, and
\* its result is not compared with seq.
IndexOf(s, seq) == \E e \in readBuffer[s] : e.seq >= seq

Accepts(s, seq) ==
  /\ seq > iSeq[s]
  /\ Cardinality(readBuffer[s]) < cReadBufferSize
  /\ ~IndexOf(s, seq)

\* Mutants of NewlyAcked: one packet too many, and one too few.
AckedAndNext(s, ack) == oAckedSeq[s] + 1 .. ack + 1
AckedButLast(s, ack) == oAckedSeq[s] + 1 .. ack - 1

\* The seqs an ack header removes from the write buffer.
NewlyAcked(s, ack) == oAckedSeq[s] + 1 .. ack

\* The buffered packets a miss header asks for; without an ack header it is
\* ignored.  A packet that was resent within the last second is skipped, one
\* that was never resent is not.
Resendable(buffer, ack, miss) ==
  LET wanted == {n \in DOMAIN buffer : ack # 0 /\ \E o \in miss : n = ack + o}
  IN {R \in SUBSET wanted : \A n \in wanted \ R : buffer[n].resent}

ReceivedPacket(s, p) ==
  LET kept == Restriction(writeBuffer[s],
                          DOMAIN writeBuffer[s] \ NewlyAcked(s, p.ack))
      omiss == BuildMissList(iSeq[s], iSeenSeq[s], BufferedSeqs(s))
      seen == Larger(iSeenSeq[s], p.seq)
      accepted == p.seq # 0 /\ Accepts(s, p.seq)
      endAck == accepted /\ p.end
      ack == AckPacket(s, iSeq[s],
                       BuildMissList(iSeq[s], seen, BufferedSeqs(s)))
  IN /\ p.to = s
     /\ ~broken[s]
     /\ oAckedSeq' = [oAckedSeq EXCEPT ![s] = Larger(@, p.ack)]
     /\ needsResend' = [needsResend EXCEPT ![s] =
                          @ /\ ~(p.ack # 0 /\ DOMAIN kept = {})]
     /\ \E R \in Resendable(kept, p.ack, p.miss) :
          LET sent == [n \in R |-> Refreshed(kept[n].pkt, iSeq[s], omiss)]
          IN /\ writeBuffer' = [writeBuffer EXCEPT ![s] =
                  [n \in DOMAIN kept |->
                     IF n \in R THEN [pkt |-> sent[n], resent |-> TRUE]
                     ELSE kept[n]]]
             /\ net' = net \cup {sent[n] : n \in R}
                           \cup (IF endAck THEN {ack} ELSE {})
     /\ iSeenSeq' = [iSeenSeq EXCEPT ![s] = seen]
     /\ readBuffer' = [readBuffer EXCEPT ![s] =
          IF accepted THEN @ \cup {[seq |-> p.seq, data |-> p.data, end |-> p.end]}
          ELSE @]
     /\ iAckedSeq' = [iAckedSeq EXCEPT ![s] =
                        IF endAck /\ iSeq[s] # 0 THEN iSeq[s] ELSE @]
     /\ UNCHANGED <<oSeq, iSeq, deliveredEnd, readEnd, broken, closed, resending,
                    written, readLog>>

AutoDeliverAck(s) ==
  /\ net' = net \cup {AckPacket(s, iSeq[s],
                        BuildMissList(iSeq[s], iSeenSeq[s], BufferedSeqs(s)))}
  /\ iAckedSeq' = [iAckedSeq EXCEPT ![s] = IF iSeq[s] # 0 THEN iSeq[s] ELSE @]
  /\ UNCHANGED <<oSeq, iSeenSeq, iSeq, oAckedSeq, flagVars, readBuffer,
                 writeBuffer, resending, written, readLog>>

-----------------------------------------------------------------------------
(* Closing.                                                                *)

\* Close writes an empty end packet unless the end was written, drains the
\* read buffer up to the peer's end with ReadPacket, and returns.
CloseWritesEnd(s) == WritePacket(s, NoData, TRUE)

CloseReturns(s) ==
  /\ deliveredEnd[s]
  /\ ~broken[s]
  /\ ~BlockClose(s)
  /\ closed' = [closed EXCEPT ![s] = TRUE]
  /\ UNCHANGED <<seqVars, deliveredEnd, readEnd, needsResend, broken, readBuffer,
                 writeBuffer, resending, net, written, readLog>>

\* Kill; the open and the close deadline leave the same protocol state.
Kill(s) ==
  /\ s \in MayBreak
  /\ ~broken[s]
  /\ broken' = [broken EXCEPT ![s] = TRUE]
  /\ UNCHANGED <<seqVars, deliveredEnd, readEnd, needsResend, closed, readBuffer,
                 writeBuffer, resending, net, written, readLog>>

Lose(p) ==
  /\ p.to \in MayLose
  /\ net' = net \ {p}
  /\ UNCHANGED <<seqVars, flagVars, readBuffer, writeBuffer, resending, written,
                 readLog>>

-----------------------------------------------------------------------------
Init ==
  /\ oSeq = [s \in Side |-> 0]
  /\ iSeenSeq = [s \in Side |-> 0]
  /\ iSeq = [s \in Side |-> 0]
  /\ oAckedSeq = [s \in Side |-> 0]
  /\ iAckedSeq = [s \in Side |-> 0]
  /\ deliveredEnd = [s \in Side |-> FALSE]
  /\ readEnd = [s \in Side |-> FALSE]
  /\ needsResend = [s \in Side |-> FALSE]
  /\ broken = [s \in Side |-> FALSE]
  /\ closed = [s \in Side |-> FALSE]
  /\ readBuffer = [s \in Side |-> {}]
  /\ writeBuffer = [s \in Side |-> <<>>]
  /\ resending = [s \in Side |-> 0]
  /\ net = {}
  /\ written = [s \in Side |-> <<>>]
  /\ readLog = [s \in Side |-> <<>>]

Step(s) ==
  \/ \E d \in Data, end \in BOOLEAN : WritePacket(s, d, end)
  \/ \E d \in Data : Error(s, d)
  \/ ResendLastPacket(s)
  \/ DeliverResend(s)
  \/ ReadPacket(s)
  \/ \E p \in net : ReceivedPacket(s, p)
  \/ AutoDeliverAck(s)
  \/ CloseWritesEnd(s)
  \/ CloseReturns(s)
  \/ Kill(s)

Next ==
  \/ \E s \in Side : Step(s)
  \/ \E p \in net : Lose(p)

Spec == Init /\ [][Next]_vars

\* The timers of a channel that was not closed re-arm themselves, the
\* application keeps reading and the server answers, and the network is
\* fair: a packet or an ack that is sent again and again arrives.
Fairness ==
  \A s \in Side :
    /\ WF_vars(ReadPacket(s))
    /\ WF_vars(oSeq[s] = 0 /\ \E d \in Body, e \in BOOLEAN : WritePacket(s, d, e))
    /\ WF_vars(~closed[s] /\ ResendLastPacket(s))
    /\ WF_vars(DeliverResend(s))
    /\ WF_vars(CloseReturns(s))
    /\ WF_vars(~closed[s] /\ AutoDeliverAck(s))
    /\ \A n \in 1..MaxSeq[Peer(s)] :
         SF_vars(~closed[s] /\ \E p \in net : p.seq = n /\ ReceivedPacket(s, p))
    /\ \A n \in 1..MaxSeq[s] :
         SF_vars(~closed[s] /\ \E p \in net : p.ack = n /\ ReceivedPacket(s, p))

FairSpec == Spec /\ Fairness

-----------------------------------------------------------------------------
(* Properties.                                                             *)

TypeOK ==
  /\ oSeq \in [Side -> Nat]
  /\ iSeenSeq \in [Side -> Nat]
  /\ iSeq \in [Side -> Nat]
  /\ oAckedSeq \in [Side -> Nat]
  /\ iAckedSeq \in [Side -> Nat]
  /\ deliveredEnd \in [Side -> BOOLEAN]
  /\ readEnd \in [Side -> BOOLEAN]
  /\ needsResend \in [Side -> BOOLEAN]
  /\ broken \in [Side -> BOOLEAN]
  /\ closed \in [Side -> BOOLEAN]
  /\ readBuffer \in [Side -> SUBSET [seq : Nat, data : Body, end : BOOLEAN]]
  /\ DOMAIN writeBuffer = Side
  /\ \A s \in Side :
       /\ DOMAIN writeBuffer[s] \subseteq Nat
       /\ \A n \in DOMAIN writeBuffer[s] :
            writeBuffer[s][n] \in [pkt : Packet, resent : BOOLEAN]
  /\ resending \in [Side -> Nat]
  /\ net \subseteq Packet
  /\ written \in [Side -> Seq(Content)]
  /\ readLog \in [Side -> Seq(Content)]

\* The reader sees the peer's packets in the order they were written, each
\* one once and with its own body, whatever the network does.
InOrder ==
  \A s \in Side :
    /\ Len(readLog[s]) <= Len(written[Peer(s)])
    /\ \A i \in 1..Len(readLog[s]) : readLog[s][i] = written[Peer(s)][i]

\* An ack is a promise that the application read the packet.
AckedIsRead == \A s \in Side : oAckedSeq[s] <= iSeq[Peer(s)]

\* A packet the peer has not read can still be resent: it stays in the write
\* buffer until then.
UnreadIsRetained ==
  \A s \in Side :
    \A n \in iSeq[Peer(s)] + 1 .. oSeq[s] : n \in DOMAIN writeBuffer[s]

\* The two buffers agree: a packet that is neither read nor buffered is never
\* refused for a full read buffer.
NeverRefusedForRoom ==
  \A p \in net :
    (p.seq > iSeq[p.to] /\ p.seq \notin BufferedSeqs(p.to))
      => Cardinality(readBuffer[p.to]) < cReadBufferSize

\* No seq in a miss list lies beyond the read window, so that the unsigned
\* c.iSeq + cReadBufferSize - last at the end of buildMissList does not wrap.
MissWithinWindow == \A p \in net : \A o \in p.miss : o \in 1..cReadBufferSize

\* A reader that is told EOF has read all that its peer wrote.
EofIsComplete ==
  \A s \in Side :
    readEnd[s] => deliveredEnd[Peer(s)] /\ readLog[s] = written[Peer(s)]

\* When Close returns nil, the peer has read everything up to the end packet.
CloseIsGraceful ==
  \A s \in Side : closed[s] => readEnd[Peer(s)] /\ readLog[Peer(s)] = written[s]

\* A side gave the channel up.
Interrupted == \E s \in Side : broken[s]

\* With one packet in flight, every packet is acked in the end, although any
\* of its transmissions and of its acks may be lost; unless the peer closed
\* its side first, after which nobody acks, or a side was broken.
EventuallyAcked ==
  []<>(Interrupted \/ \A s \in Side : oAckedSeq[s] = oSeq[s] \/ closed[Peer(s)])

\* When both sides wrote their end packet, at least one of the two Close
\* calls returns nil: the other may miss the last ack and time out.  A side that
\* is killed, or ends in Error, first is the only other way out.
OneCloseReturns ==
  []<>((\A s \in Side : deliveredEnd[s]) => (\E s \in Side : closed[s]) \/ Interrupted)

-----------------------------------------------------------------------------
(* What the channel promises its application.                              *)

Stream == INSTANCE ReliableStream

\* The two sides implement a pair of streams: the writer appends, the reader
\* takes the next packet, and Close returns when both sides read to the end.
ImplementsStream == Stream!Spec

\* channel.go:661 drops a packet because "a packet with this seq is already
\* buffered": a packet of the window that is neither read nor buffered is
\* taken into the read buffer.
GapIsFilled ==
  [][\A s \in Side : \A p \in net :
       (/\ ReceivedPacket(s, p)
        /\ p.seq > iSeq[s]
        /\ Cardinality(readBuffer[s]) < cReadBufferSize
        /\ p.seq \notin BufferedSeqs(s))
       => \E e \in readBuffer'[s] : e.seq = p.seq]_vars

=============================================================================
