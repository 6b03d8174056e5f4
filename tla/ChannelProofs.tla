--------------------------- MODULE ChannelProofs ----------------------------
(*****************************************************************************)
(* Theorems about the reliable channel, for every window size, ack policy    *)
(* and number of packets: it keeps its inductive invariant, closes           *)
(* gracefully, never refuses a packet for want of room, and implements       *)
(* ReliableStream.                                                           *)
(*****************************************************************************)
EXTENDS Channel, FiniteSetTheorems, TLAPS

-----------------------------------------------------------------------------
(* The inductive invariant.                                                *)

\* The counters count the histories.
CountersAt(s) ==
  /\ Len(written[s]) = oSeq[s]
  /\ Len(readLog[s]) = iSeq[s]

\* acked <= read <= written <= acked + window.
WindowAt(s) ==
  /\ oAckedSeq[s] <= iSeq[Peer(s)]
  /\ iSeq[Peer(s)] <= oSeq[s]
  /\ oSeq[s] <= oAckedSeq[s] + cWriteBufferSize
  /\ iSeenSeq[Peer(s)] <= oSeq[s]
  /\ resending[s] <= oSeq[s]

\* A packet buffered under n carries the n-th content of the stream w.
EntryOK(pkt, to, n, w, read) ==
  /\ pkt.to = to
  /\ pkt.seq = n
  /\ pkt.data = w[n].data
  /\ pkt.end = w[n].end
  /\ pkt.ack <= read
  /\ pkt.miss \subseteq 1..cReadBufferSize

\* The write buffer holds exactly the unacked packets.
WriteBufferAt(s) ==
  /\ DOMAIN writeBuffer[s] = oAckedSeq[s] + 1 .. oSeq[s]
  /\ \A n \in DOMAIN writeBuffer[s] :
       EntryOK(writeBuffer[s][n].pkt, Peer(s), n, written[s], iSeq[s])

\* A packet on the network acks what was read, and carries what was written
\* under its seq, unless that seq was already read.
PacketOK(p) ==
  /\ p.ack <= iSeq[Peer(p.to)]
  /\ p.seq <= oSeq[Peer(p.to)]
  /\ p.seq > iSeq[p.to] =>
       /\ p.data = written[Peer(p.to)][p.seq].data
       /\ p.end = written[Peer(p.to)][p.seq].end
  /\ p.miss \subseteq 1..cReadBufferSize

ReadBufferAt(s) ==
  \A e \in readBuffer[s] :
    /\ e.seq > iSeq[s]
    /\ e.seq <= oSeq[Peer(s)]
    /\ e.data = written[Peer(s)][e.seq].data
    /\ e.end = written[Peer(s)][e.seq].end

InOrderAt(s) ==
  \A i \in 1..iSeq[s] : readLog[s][i] = written[Peer(s)][i]

\* Only the last packet of a stream is an end packet, and readEnd says that
\* it was read.
EndAt(s) ==
  /\ deliveredEnd[s] => oSeq[s] > 0 /\ written[s][oSeq[s]].end
  /\ \A n \in 1..oSeq[s] :
       written[s][n].end => deliveredEnd[s] /\ n = oSeq[s]
  /\ readEnd[s] => deliveredEnd[Peer(s)] /\ iSeq[s] = oSeq[Peer(s)]
  /\ (iSeq[s] > 0 /\ written[Peer(s)][iSeq[s]].end) => readEnd[s]

CloseAt(s) ==
  closed[s] => deliveredEnd[s] /\ readEnd[s] /\ oAckedSeq[s] = oSeq[s]

SideOK(s) ==
  /\ CountersAt(s)
  /\ WindowAt(s)
  /\ WriteBufferAt(s)
  /\ ReadBufferAt(s)
  /\ InOrderAt(s)
  /\ EndAt(s)
  /\ CloseAt(s)

IndInv ==
  /\ TypeOK
  /\ \A s \in Side : SideOK(s)
  /\ \A p \in net : PacketOK(p)

-----------------------------------------------------------------------------
(* Lemmas.                                                                 *)

\* The two sides are each other's peer.
LEMMA PeerFacts ==
  /\ \A s \in Side : Peer(s) \in Side /\ Peer(Peer(s)) = s /\ Peer(s) # s
  /\ \A s, t \in Side : t = s \/ t = Peer(s)
BY Zenon DEF Side, Peer

\* buildMissList never names a seq beyond the window when none was seen.
LEMMA MissListInWindow ==
  ASSUME NEW read \in Nat, NEW seen \in Nat, NEW buffered,
         seen <= read + cReadBufferSize
  PROVE  BuildMissList(read, seen, buffered) \subseteq 1..cReadBufferSize
<1> DEFINE missing == {n \in read + 1 .. seen : ~(read + 1 .. n \subseteq buffered)}
           listed == {n \in missing :
                        Cardinality({k \in missing : k < n}) < cReadBufferSize - 1}
<1>1. \A n \in listed : n \in Nat /\ read < n /\ n <= seen
  OBVIOUS
<1> HIDE DEF listed
<1>2. {n - read : n \in listed} \subseteq 1..cReadBufferSize
  BY <1>1, SizeAssumption DEF SizeAssumption
<1>3. cReadBufferSize \in 1..cReadBufferSize
  BY SizeAssumption DEF SizeAssumption
<1>4. BuildMissList(read, seen, buffered)
        = IF missing = {} THEN {} ELSE {n - read : n \in listed} \cup {cReadBufferSize}
  BY Zenon DEF BuildMissList, FromFirstGap, listed
<1> QED
  BY <1>2, <1>3, <1>4, Zenon

\* The later of two seqs.
LEMMA LargerFacts ==
  ASSUME NEW a \in Nat, NEW b \in Nat
  PROVE  /\ Larger(a, b) \in Nat /\ a <= Larger(a, b) /\ b <= Larger(a, b)
         /\ Larger(a, b) = a \/ Larger(a, b) = b
BY DEF Larger

\* What a side has seen lies within its read window.
LEMMA SeenInWindow ==
  ASSUME TypeOK, NEW s \in Side, WindowAt(Peer(s))
  PROVE  /\ iSeenSeq[s] <= iSeq[s] + cReadBufferSize
         /\ oSeq[Peer(s)] <= iSeq[s] + cReadBufferSize
<1>1. Peer(s) \in Side /\ Peer(Peer(s)) = s
  BY PeerFacts, Zenon
<1>2. /\ oAckedSeq[Peer(s)] <= iSeq[s]
      /\ oSeq[Peer(s)] <= oAckedSeq[Peer(s)] + cWriteBufferSize
      /\ iSeenSeq[s] <= oSeq[Peer(s)]
  BY <1>1, Zenon DEF WindowAt
<1>3. /\ oAckedSeq[Peer(s)] \in Nat /\ oSeq[Peer(s)] \in Nat
      /\ iSeenSeq[s] \in Nat /\ iSeq[s] \in Nat
  BY <1>1, Zenon DEF TypeOK
<1> QED
  BY <1>2, <1>3, SizeAssumption DEF SizeAssumption

\* The miss list of a side's present state.
LEMMA CurrentMissList ==
  ASSUME TypeOK, NEW s \in Side, WindowAt(Peer(s)), NEW buffered
  PROVE  BuildMissList(iSeq[s], iSeenSeq[s], buffered) \subseteq 1..cReadBufferSize
BY SeenInWindow, MissListInWindow, Zenon DEF TypeOK

\* newChannel: the initial state satisfies the inductive invariant.
LEMMA InitInv == Init => IndInv
<1> SUFFICES ASSUME Init PROVE IndInv
  BY Zenon
<1>1. TypeOK
  BY DEF Init, TypeOK, Side, Content, Packet
<1>2. ASSUME NEW s \in Side PROVE SideOK(s)
  <2>1. Peer(s) \in Side
    BY PeerFacts, Zenon
  <2>2. CountersAt(s) /\ WindowAt(s) /\ CloseAt(s)
    BY <2>1, SizeAssumption DEF Init, CountersAt, WindowAt, CloseAt, SizeAssumption
  <2>3. WriteBufferAt(s)
    BY DEF Init, WriteBufferAt
  <2>4. ReadBufferAt(s) /\ InOrderAt(s) /\ EndAt(s)
    BY <2>1 DEF Init, ReadBufferAt, InOrderAt, EndAt
  <2> QED
    BY <2>2, <2>3, <2>4, Zenon DEF SideOK
<1> QED
  BY <1>1, <1>2, Zenon DEF IndInv, Init

\* The packet write builds.
LEMMA NewPacketOK ==
  ASSUME TypeOK, NEW s \in Side, WindowAt(Peer(s)), NEW d \in Body, NEW end \in BOOLEAN
  PROVE  /\ NewPacket(s, d, end) \in Packet
         /\ NewPacket(s, d, end).to = Peer(s)
         /\ NewPacket(s, d, end).seq = oSeq[s] + 1
         /\ NewPacket(s, d, end).data = d
         /\ NewPacket(s, d, end).end = end
         /\ NewPacket(s, d, end).ack <= iSeq[s]
         /\ NewPacket(s, d, end).miss \subseteq 1..cReadBufferSize
<1> DEFINE list == BuildMissList(iSeq[s], iSeenSeq[s], BufferedSeqs(s))
<1>1. iSeq[s] \in Nat /\ oSeq[s] \in Nat /\ iSeenSeq[s] \in Nat
  BY Zenon DEF TypeOK
<1>2. list \subseteq 1..cReadBufferSize
  BY CurrentMissList, Zenon
<1>3. list \in SUBSET Nat
  BY <1>2
<1>4. Peer(s) \in Side
  BY PeerFacts, Zenon
<1> HIDE DEF list
<1>5. NewPacket(s, d, end)
        = [to |-> Peer(s), seq |-> oSeq[s] + 1, data |-> d, end |-> end,
           ack |-> IF CarriesAck(s, end) THEN iSeq[s] ELSE 0,
           miss |-> IF CarriesAck(s, end) THEN list ELSE {}]
  BY Zenon DEF NewPacket, list
<1> QED
  BY <1>1, <1>2, <1>3, <1>4, <1>5 DEF Packet

\* A step that leaves the streams alone only has to keep the buffered and the
\* sent packets in order.
LEMMA FrameInv ==
  ASSUME IndInv, TypeOK',
         UNCHANGED <<oSeq, iSeq, oAckedSeq, deliveredEnd, readEnd, readBuffer,
                     written, readLog, closed>>,
         \A s \in Side : iSeenSeq'[Peer(s)] <= oSeq[s] /\ resending'[s] <= oSeq[s],
         \A s \in Side : WriteBufferAt(s)',
         \A p \in net' : PacketOK(p)
  PROVE  IndInv'
<1>1. ASSUME NEW s \in Side PROVE SideOK(s)'
  <2>1. SideOK(s)
    BY Zenon DEF IndInv
  <2>2. CountersAt(s)' /\ ReadBufferAt(s)' /\ InOrderAt(s)' /\ EndAt(s)' /\ CloseAt(s)'
    BY <2>1, Zenon DEF SideOK, CountersAt, ReadBufferAt, InOrderAt, EndAt, CloseAt
  <2>3. WindowAt(s)'
    BY <2>1, Zenon DEF SideOK, WindowAt
  <2> QED
    BY <2>2, <2>3, Zenon DEF SideOK
<1>2. ASSUME NEW p \in net' PROVE PacketOK(p)'
  BY Zenon DEF PacketOK
<1> QED
  BY <1>1, <1>2, Zenon DEF IndInv

\* The packet deliverAck builds.
LEMMA AckPacketFields ==
  ASSUME NEW s \in Side, NEW read \in Nat, NEW miss \in SUBSET (1..cReadBufferSize)
  PROVE  /\ AckPacket(s, read, miss) \in Packet
         /\ AckPacket(s, read, miss).to = Peer(s)
         /\ AckPacket(s, read, miss).seq = 0
         /\ AckPacket(s, read, miss).ack = read
         /\ AckPacket(s, read, miss).miss \subseteq 1..cReadBufferSize
<1> DEFINE a == AckPacket(s, read, miss)
<1>1. /\ a.to = Peer(s) /\ a.seq = 0 /\ a.data = NoData /\ a.end = FALSE
      /\ a.ack = read /\ a.miss = IF read = 0 THEN {} ELSE miss
  BY Zenon DEF AckPacket
<1>2. Peer(s) \in Side
  BY PeerFacts, Zenon
<1>3. a.miss \subseteq 1..cReadBufferSize /\ a.miss \in SUBSET Nat
  <2>1. a.miss = {} \/ a.miss = miss
    BY <1>1, Zenon
  <2>2. miss \in SUBSET Nat
    BY SizeAssumption DEF SizeAssumption
  <2> HIDE DEF a
  <2> QED
    BY <2>1, <2>2, Zenon
<1>4. a \in Packet
  BY <1>2, <1>3, SizeAssumption, Zenon DEF AckPacket, Packet, Body, SizeAssumption
<1> QED
  BY <1>1, <1>3, <1>4, Zenon

\* The ad-hoc ack packet is one the invariant allows on the network.
LEMMA AckPacketOK ==
  ASSUME TypeOK, NEW s \in Side, NEW miss \in SUBSET (1..cReadBufferSize)
  PROVE  /\ AckPacket(s, iSeq[s], miss) \in Packet
         /\ PacketOK(AckPacket(s, iSeq[s], miss))
<1>1. /\ Peer(s) \in Side /\ Peer(Peer(s)) = s
      /\ iSeq[s] \in Nat /\ oSeq[s] \in Nat /\ iSeq[Peer(s)] \in Nat
  BY PeerFacts, Zenon DEF TypeOK
<1> DEFINE a == AckPacket(s, iSeq[s], miss)
<1>2. /\ a \in Packet /\ a.to = Peer(s) /\ a.seq = 0 /\ a.ack = iSeq[s]
      /\ a.miss \subseteq 1..cReadBufferSize
  BY <1>1, AckPacketFields, Zenon
<1> HIDE DEF a
<1>3. PacketOK(a)
  BY <1>1, <1>2 DEF PacketOK
<1> QED
  BY <1>2, <1>3, Zenon DEF a

\* A buffered packet with refreshed ack headers.
LEMMA RefreshedOK ==
  ASSUME NEW pkt \in Packet, NEW to, NEW n, NEW w, NEW read \in Nat,
         EntryOK(pkt, to, n, w, read), NEW miss \in SUBSET (1..cReadBufferSize)
  PROVE  /\ Refreshed(pkt, read, miss) \in Packet
         /\ EntryOK(Refreshed(pkt, read, miss), to, n, w, read)
<1> DEFINE r == Refreshed(pkt, read, miss)
<1>1. /\ r \in Packet
      /\ r.to = pkt.to /\ r.seq = pkt.seq /\ r.data = pkt.data /\ r.end = pkt.end
      /\ r.ack = IF read >= 1 THEN read ELSE pkt.ack
      /\ r.miss = IF miss # {} THEN miss ELSE pkt.miss
  <2>1. miss \in SUBSET Nat
    BY SizeAssumption DEF SizeAssumption
  <2> QED
    BY <2>1, Zenon DEF Refreshed, Packet
<1> HIDE DEF r
<1>2. pkt.ack \in Nat
  BY Zenon DEF Packet
<1>3. EntryOK(r, to, n, w, read)
  <2>1. /\ pkt.to = to /\ pkt.seq = n /\ pkt.data = w[n].data /\ pkt.end = w[n].end
        /\ pkt.ack <= read /\ pkt.miss \subseteq 1..cReadBufferSize
    BY Zenon DEF EntryOK
  <2>2. r.ack <= read
    BY <2>1, <1>1, <1>2
  <2>3. r.miss \subseteq 1..cReadBufferSize
    BY <2>1, <1>1, Zenon
  <2>4. r.to = to /\ r.seq = n /\ r.data = w[n].data /\ r.end = w[n].end
    BY <2>1, <1>1, Zenon
  <2> QED
    BY <2>2, <2>3, <2>4, Zenon DEF EntryOK
<1> QED
  BY <1>1, <1>3, Zenon DEF r

\* A buffered packet may be sent.
LEMMA EntryIsPacketOK ==
  ASSUME TypeOK, NEW s \in Side, NEW n \in 1..oSeq[s], NEW pkt,
         EntryOK(pkt, Peer(s), n, written[s], iSeq[s])
  PROVE  PacketOK(pkt)
<1>1. Peer(s) \in Side /\ Peer(Peer(s)) = s /\ oSeq[s] \in Nat
  BY PeerFacts, Zenon DEF TypeOK
<1>2. /\ pkt.to = Peer(s) /\ pkt.seq = n /\ pkt.ack <= iSeq[s]
      /\ pkt.data = written[s][n].data /\ pkt.end = written[s][n].end
      /\ pkt.miss \subseteq 1..cReadBufferSize
  BY Zenon DEF EntryOK
<1>3. n <= oSeq[s]
  BY <1>1
<1> QED
  BY <1>1, <1>2, <1>3, Zenon DEF PacketOK

-----------------------------------------------------------------------------
(* Acks, resends and reads.                                                *)

\* autoDeliverAck keeps the inductive invariant.
LEMMA AutoDeliverAckInv ==
  ASSUME IndInv, NEW s \in Side, AutoDeliverAck(s)
  PROVE  IndInv'
<1> DEFINE list == BuildMissList(iSeq[s], iSeenSeq[s], BufferedSeqs(s))
<1>1. TypeOK /\ Peer(s) \in Side /\ WindowAt(Peer(s))
  BY PeerFacts, Zenon DEF IndInv, SideOK
<1>2. list \in SUBSET (1..cReadBufferSize)
  BY <1>1, CurrentMissList, Zenon
<1>3. net' = net \cup {AckPacket(s, iSeq[s], list)}
  BY Zenon DEF AutoDeliverAck
<1>4. /\ UNCHANGED <<oSeq, iSeenSeq, iSeq, oAckedSeq, deliveredEnd, readEnd,
                     needsResend, broken, closed, readBuffer, writeBuffer,
                     resending, written, readLog>>
      /\ iAckedSeq' = [iAckedSeq EXCEPT ![s] = IF iSeq[s] # 0 THEN iSeq[s] ELSE @]
  BY Zenon DEF AutoDeliverAck, flagVars
<1> HIDE DEF list
<1>5. AckPacket(s, iSeq[s], list) \in Packet /\ PacketOK(AckPacket(s, iSeq[s], list))
  BY <1>1, <1>2, AckPacketOK, Zenon
<1>6. TypeOK'
  BY <1>1, <1>3, <1>4, <1>5, Zenon DEF TypeOK
<1>7. \A p \in net' : PacketOK(p)
  BY <1>3, <1>5, Zenon DEF IndInv
<1>8. \A t \in Side : WriteBufferAt(t)'
  BY <1>4, Zenon DEF IndInv, SideOK, WriteBufferAt
<1>9. \A t \in Side : iSeenSeq'[Peer(t)] <= oSeq[t] /\ resending'[t] <= oSeq[t]
  BY <1>4, Zenon DEF IndInv, SideOK, WindowAt
<1> QED
  BY <1>4, <1>6, <1>7, <1>8, <1>9, FrameInv, Zenon

\* The locked part of resendLastPacket keeps the inductive invariant.
LEMMA ResendLastPacketInv ==
  ASSUME IndInv, NEW s \in Side, ResendLastPacket(s)
  PROVE  IndInv'
<1> DEFINE list == BuildMissList(iSeq[s], iSeenSeq[s], BufferedSeqs(s))
           last == oSeq[s]
           resend == needsResend[s] /\ last \in DOMAIN writeBuffer[s]
           new == Refreshed(writeBuffer[s][last].pkt, iSeq[s], list)
<1>1. TypeOK /\ Peer(s) \in Side /\ WindowAt(Peer(s)) /\ iSeq[s] \in Nat /\ oSeq[s] \in Nat
  BY PeerFacts, Zenon DEF IndInv, SideOK, TypeOK
<1>2. list \in SUBSET (1..cReadBufferSize)
  BY <1>1, CurrentMissList, Zenon
<1>3. /\ UNCHANGED <<oSeq, iSeenSeq, iSeq, oAckedSeq, iAckedSeq, deliveredEnd,
                     readEnd, broken, closed, readBuffer, net, written, readLog>>
      /\ needsResend' = [needsResend EXCEPT ![s] = TRUE]
      /\ resending' = [resending EXCEPT ![s] = IF resend THEN last ELSE 0]
      /\ writeBuffer' = IF ~resend THEN writeBuffer
           ELSE [writeBuffer EXCEPT ![s][last] = [pkt |-> new, resent |-> TRUE]]
  BY Zenon DEF ResendLastPacket, seqVars
<1>frame. UNCHANGED <<oSeq, iSeenSeq, iSeq, oAckedSeq, iAckedSeq, deliveredEnd,
                      readEnd, broken, closed, readBuffer, net, written, readLog>>
  BY <1>3, Zenon
<1> HIDE DEF list
<1>4. \A t \in Side : iSeenSeq'[Peer(t)] <= oSeq[t] /\ resending'[t] <= oSeq[t]
  <2>1. \A t \in Side : /\ iSeenSeq[Peer(t)] <= oSeq[t] /\ resending[t] <= oSeq[t]
                        /\ oSeq[t] \in Nat
    BY Zenon DEF IndInv, SideOK, WindowAt, TypeOK
  <2>2. resending \in [Side -> Nat]
    BY <1>1, Zenon DEF TypeOK
  <2>3. ASSUME NEW t \in Side PROVE resending'[t] <= oSeq[t]
    BY <2>1, <2>2, <1>3
  <2> QED
    BY <2>1, <2>3, <1>3, Zenon
<1>5. \A t \in Side : WriteBufferAt(t)
  BY Zenon DEF IndInv, SideOK
<1>6. /\ DOMAIN writeBuffer' = Side
      /\ \A t \in Side :
           /\ DOMAIN writeBuffer'[t] = DOMAIN writeBuffer[t]
           /\ \A k \in DOMAIN writeBuffer[t] :
                /\ writeBuffer'[t][k] \in [pkt : Packet, resent : BOOLEAN]
                /\ EntryOK(writeBuffer'[t][k].pkt, Peer(t), k, written[t], iSeq[t])
  <2>1. \A t \in Side : \A k \in DOMAIN writeBuffer[t] :
                /\ writeBuffer[t][k] \in [pkt : Packet, resent : BOOLEAN]
                /\ EntryOK(writeBuffer[t][k].pkt, Peer(t), k, written[t], iSeq[t])
    BY <1>1, <1>5, Zenon DEF TypeOK, WriteBufferAt
  <2>2. CASE ~resend
    BY <2>1, <2>2, <1>1, <1>3, Zenon DEF TypeOK
  <2>3. CASE resend
    <3>1. new \in Packet /\ EntryOK(new, Peer(s), last, written[s], iSeq[s])
      BY <2>1, <2>3, <1>1, <1>2, RefreshedOK, Zenon
    <3> HIDE DEF new
    <3>2. writeBuffer' = [writeBuffer EXCEPT ![s][last] = [pkt |-> new, resent |-> TRUE]]
      BY <2>3, <1>3, Zenon
    <3>3. DOMAIN writeBuffer = Side
      BY <1>1, Zenon DEF TypeOK
    <3>4. /\ DOMAIN writeBuffer' = Side
          /\ DOMAIN writeBuffer'[s] = DOMAIN writeBuffer[s]
          /\ writeBuffer'[s][last] = [pkt |-> new, resent |-> TRUE]
          /\ \A k \in DOMAIN writeBuffer[s] : k # last => writeBuffer'[s][k] = writeBuffer[s][k]
          /\ \A t \in Side : t # s => writeBuffer'[t] = writeBuffer[t]
      BY <3>2, <3>3, <2>3, Zenon
    <3>5. [pkt |-> new, resent |-> TRUE] \in [pkt : Packet, resent : BOOLEAN]
      BY <3>1, Zenon
    <3>6. ASSUME NEW t \in Side, NEW k \in DOMAIN writeBuffer[t]
          PROVE  /\ writeBuffer'[t][k] \in [pkt : Packet, resent : BOOLEAN]
                 /\ EntryOK(writeBuffer'[t][k].pkt, Peer(t), k, written[t], iSeq[t])
      <4>1. CASE t = s /\ k = last
        <5>1. /\ writeBuffer'[t][k] = [pkt |-> new, resent |-> TRUE]
              /\ writeBuffer'[t][k].pkt = new
          BY <4>1, <3>4
        <5> HIDE DEF last
        <5> QED
          BY <4>1, <5>1, <3>1, <3>5, Zenon
      <4>2. CASE t # s \/ k # last
        BY <4>2, <2>1, <3>4, Zenon
      <4> QED
        BY <4>1, <4>2, Zenon
    <3> QED
      BY <3>4, <3>6, Zenon
  <2> QED
    BY <2>2, <2>3, Zenon
<1>7. TypeOK'
  <2>1. resending' \in [Side -> Nat] /\ needsResend' \in [Side -> BOOLEAN]
    BY <1>1, <1>3, Zenon DEF TypeOK
  <2>2. \A t \in Side :
          /\ DOMAIN writeBuffer'[t] \subseteq Nat
          /\ \A k \in DOMAIN writeBuffer'[t] :
               writeBuffer'[t][k] \in [pkt : Packet, resent : BOOLEAN]
    BY <1>1, <1>6, Zenon DEF TypeOK
  <2> QED
    BY <2>1, <2>2, <1>1, <1>6, <1>frame, Zenon DEF TypeOK
<1>8. \A t \in Side : WriteBufferAt(t)'
  BY <1>5, <1>6, <1>frame, Zenon DEF WriteBufferAt
<1>9. \A p \in net' : PacketOK(p)
  BY <1>3, Zenon DEF IndInv
<1> QED
  BY <1>3, <1>4, <1>7, <1>8, <1>9, FrameInv, Zenon

\* The delivery resendLastPacket makes after its unlock keeps the invariant.
LEMMA DeliverResendInv ==
  ASSUME IndInv, NEW s \in Side, DeliverResend(s)
  PROVE  IndInv'
<1> DEFINE n == resending[s]
           torn(d) == [to |-> Peer(s), seq |-> n, data |-> d,
                       end |-> FALSE, ack |-> 0, miss |-> {}]
<1>1. /\ TypeOK /\ Peer(s) \in Side /\ Peer(Peer(s)) = s
      /\ iSeq[s] \in Nat /\ iSeq[Peer(s)] \in Nat /\ oAckedSeq[s] \in Nat
      /\ oSeq[s] \in Nat /\ n \in Nat
  BY PeerFacts, Zenon DEF IndInv, TypeOK
<1>2. WindowAt(s) /\ WriteBufferAt(s)
  BY Zenon DEF IndInv, SideOK
<1>3. /\ UNCHANGED <<oSeq, iSeenSeq, iSeq, oAckedSeq, iAckedSeq, deliveredEnd,
                     readEnd, needsResend, broken, closed, readBuffer, writeBuffer,
                     written, readLog>>
      /\ n # 0
      /\ resending' = [resending EXCEPT ![s] = 0]
      /\ IF n \in DOMAIN writeBuffer[s]
         THEN net' = net \cup {writeBuffer[s][n].pkt}
         ELSE \/ net' = net
              \/ \E d \in Body : net' = net \cup {torn(d)}
  BY Zenon DEF DeliverResend, seqVars, flagVars
<1>4. net' \subseteq Packet /\ \A p \in net' : PacketOK(p)
  <2>1. net \subseteq Packet /\ \A p \in net : PacketOK(p)
    BY Zenon DEF IndInv, TypeOK
  <2>2. CASE n \in DOMAIN writeBuffer[s]
    <3>1. n \in 1..oSeq[s] /\ EntryOK(writeBuffer[s][n].pkt, Peer(s), n, written[s], iSeq[s])
      <4>1. n \in oAckedSeq[s] + 1 .. oSeq[s]
        BY <2>2, <1>2, Zenon DEF WriteBufferAt
      <4>2. EntryOK(writeBuffer[s][n].pkt, Peer(s), n, written[s], iSeq[s])
        BY <2>2, <1>2, Zenon DEF WriteBufferAt
      <4>3. oAckedSeq[s] \in Nat /\ oSeq[s] \in Nat
        BY <1>1, Zenon
      <4> HIDE DEF n
      <4> QED
        BY <4>1, <4>2, <4>3
    <3>2. writeBuffer[s][n].pkt \in Packet
      BY <2>2, <1>1, Zenon DEF TypeOK
    <3>3. PacketOK(writeBuffer[s][n].pkt)
      BY <3>1, <1>1, EntryIsPacketOK, Zenon
    <3> QED
      BY <2>1, <2>2, <3>2, <3>3, <1>3, Zenon
  <2>3. CASE n \notin DOMAIN writeBuffer[s]
    <3>1. n <= iSeq[Peer(s)] /\ n <= oSeq[s]
      <4>1. n \notin oAckedSeq[s] + 1 .. oSeq[s]
        BY <2>3, <1>2, Zenon DEF WriteBufferAt
      <4>2. n <= oSeq[s] /\ oAckedSeq[s] <= iSeq[Peer(s)]
        BY <1>2, Zenon DEF WindowAt
      <4>3. /\ oAckedSeq[s] \in Nat /\ oSeq[s] \in Nat /\ iSeq[Peer(s)] \in Nat
            /\ n \in Nat
        BY <1>1, Zenon
      <4> HIDE DEF n
      <4> QED
        BY <4>1, <4>2, <4>3
    <3>2. \A d \in Body : torn(d) \in Packet
      BY <1>1, Zenon DEF Packet
    <3>3. ASSUME NEW d \in Body PROVE PacketOK(torn(d))
      <4>1. /\ torn(d).to = Peer(s) /\ torn(d).seq = n
            /\ torn(d).ack = 0 /\ torn(d).miss = {}
        BY Zenon
      <4> HIDE DEF torn
      <4> QED
        BY <4>1, <3>1, <1>1 DEF PacketOK
    <3>4. net' = net \/ \E d \in Body : net' = net \cup {torn(d)}
      BY <2>3, <1>3, Zenon
    <3> HIDE DEF torn
    <3> QED
      BY <2>1, <3>2, <3>3, <3>4, Zenon
  <2> QED
    BY <2>2, <2>3, Zenon
<1>5. TypeOK'
  BY <1>1, <1>3, <1>4, Zenon DEF TypeOK
<1>6. \A t \in Side : WriteBufferAt(t)'
  BY <1>3, Zenon DEF IndInv, SideOK, WriteBufferAt
<1>7. \A t \in Side : iSeenSeq'[Peer(t)] <= oSeq[t] /\ resending'[t] <= oSeq[t]
  <2>1. \A t \in Side : /\ iSeenSeq[Peer(t)] <= oSeq[t] /\ resending[t] <= oSeq[t]
                        /\ oSeq[t] \in Nat
    BY SMTT(30) DEF IndInv, SideOK, WindowAt, TypeOK
  <2>2. resending \in [Side -> Nat]
    BY <1>1, Zenon DEF TypeOK
  <2>3. ASSUME NEW t \in Side PROVE resending'[t] <= oSeq[t]
    <3>1. resending' = [resending EXCEPT ![s] = 0]
      BY <1>3, Zenon
    <3> QED
      BY <3>1, <2>1, <2>2
  <2> QED
    BY <2>1, <2>3, <1>3, Zenon
<1> QED
  BY <1>3, <1>4, <1>5, <1>6, <1>7, FrameInv, Zenon

\* ReadPacket takes the next packet and keeps the inductive invariant.
LEMMA ReadPacketInv ==
  ASSUME IndInv, NEW s \in Side, ReadPacket(s)
  PROVE  IndInv'
<1> DEFINE p == Peer(s)
<1>1. /\ p \in Side /\ Peer(p) = s /\ p # s
      /\ \A t \in Side : t = s \/ t = p
  BY PeerFacts, Zenon
<1>2. /\ TypeOK /\ SideOK(s) /\ SideOK(p)
      /\ \A q \in net : PacketOK(q)
  BY <1>1, Zenon DEF IndInv
<1>3. PICK e \in readBuffer[s] :
        LET rest == readBuffer[s] \ {e}
            acks == e.end \/ e.seq - iAckedSeq[s] >= earlyAdHocAck
            miss == BuildMissList(e.seq, iSeenSeq[s], {f.seq : f \in rest})
        IN /\ IsNext(s, e)
           /\ iSeq' = [iSeq EXCEPT ![s] = @ + 1]
           /\ readBuffer' = [readBuffer EXCEPT ![s] = rest]
           /\ readEnd' = [readEnd EXCEPT ![s] = e.end]
           /\ iAckedSeq' = [iAckedSeq EXCEPT ![s] = IF acks THEN e.seq ELSE @]
           /\ net' = IF acks THEN net \cup {AckPacket(s, e.seq, miss)} ELSE net
           /\ readLog' = [readLog EXCEPT ![s] =
                            Append(@, [data |-> e.data, end |-> e.end])]
  BY Zenon DEF ReadPacket
<1> DEFINE m == e.seq
           c == [data |-> e.data, end |-> e.end]
           miss == BuildMissList(m, iSeenSeq[s], {f.seq : f \in readBuffer[s] \ {e}})
           ack == AckPacket(s, m, miss)
<1>4. /\ ~readEnd[s]
      /\ UNCHANGED <<oSeq, iSeenSeq, oAckedSeq, deliveredEnd, needsResend, broken,
                     closed, writeBuffer, resending, written>>
  BY Zenon DEF ReadPacket
<1>5. /\ iSeq[s] \in Nat /\ iSeq[p] \in Nat /\ oSeq[s] \in Nat /\ oSeq[p] \in Nat
      /\ oAckedSeq[p] \in Nat /\ oAckedSeq[s] \in Nat /\ iSeenSeq[s] \in Nat
      /\ readLog[s] \in Seq(Content) /\ Len(readLog[s]) = iSeq[s]
      /\ written[p] \in Seq(Content) /\ Len(written[p]) = oSeq[p]
  BY <1>1, <1>2, Zenon DEF TypeOK, SideOK, CountersAt
<1>6. /\ e \in [seq : Nat, data : Body, end : BOOLEAN]
      /\ m = iSeq[s] + 1 /\ m <= oSeq[p]
      /\ e.data = written[p][m].data /\ e.end = written[p][m].end
      /\ \A f \in readBuffer[s] : e.seq <= f.seq
  BY <1>2, <1>3, Zenon DEF TypeOK, SideOK, ReadBufferAt, IsNext
<1>7. /\ m \in Nat /\ m > iSeq[s] /\ m \in 1..oSeq[p]
      /\ c \in Content /\ c = written[p][m]
  <2>1. m \in Nat /\ m > iSeq[s] /\ m \in 1..oSeq[p]
    BY <1>5, <1>6
  <2>2. written[p][m] \in Content
    BY <2>1, <1>5, SMTT(30)
  <2> QED
    BY <2>1, <2>2, <1>6, Zenon DEF Content
<1>8. /\ iSeq' = [iSeq EXCEPT ![s] = m]
      /\ iSeq'[s] = m /\ iSeq'[p] = iSeq[p]
  BY <1>1, <1>2, <1>3, <1>6, Zenon DEF TypeOK
<1>9. /\ readBuffer' = [readBuffer EXCEPT ![s] = readBuffer[s] \ {e}]
      /\ readBuffer'[s] = readBuffer[s] \ {e} /\ readBuffer'[p] = readBuffer[p]
  BY <1>1, <1>2, <1>3, Zenon DEF TypeOK
<1>10. /\ readEnd' = [readEnd EXCEPT ![s] = e.end]
       /\ readEnd'[s] = e.end /\ readEnd'[p] = readEnd[p]
  BY <1>1, <1>2, <1>3, Zenon DEF TypeOK
<1>11. /\ readLog' = [readLog EXCEPT ![s] = Append(@, c)]
       /\ readLog'[s] \in Seq(Content) /\ Len(readLog'[s]) = m
       /\ readLog'[s][m] = c
       /\ \A k \in 1..iSeq[s] : readLog'[s][k] = readLog[s][k]
       /\ readLog'[p] = readLog[p]
  <2>1. readLog' = [readLog EXCEPT ![s] = Append(@, c)]
    BY <1>3, Zenon
  <2>2. readLog'[s] = Append(readLog[s], c) /\ readLog'[p] = readLog[p]
    BY <2>1, <1>1, <1>2, Zenon DEF TypeOK
  <2>3. readLog[s] \in Seq(Content) /\ Len(readLog[s]) = iSeq[s] /\ c \in Content
    BY <1>5, <1>7, Zenon
  <2>4. m = iSeq[s] + 1 /\ iSeq[s] \in Nat
    BY <1>5, <1>6, Zenon
  <2> HIDE DEF c, m
  <2> QED
    BY <2>1, <2>2, <2>3, <2>4, SMTT(30)
<1>12. /\ net' = net \/ net' = net \cup {ack}
       /\ \/ iAckedSeq' = iAckedSeq
          \/ iAckedSeq' = [iAckedSeq EXCEPT ![s] = m]
  BY <1>2, <1>3, Zenon DEF TypeOK
<1>13. /\ ack \in Packet /\ ack.to = p /\ ack.seq = 0 /\ ack.ack = m
       /\ ack.miss \subseteq 1..cReadBufferSize
  <2>1. iSeenSeq[s] <= m + cReadBufferSize
    <3>1. iSeenSeq[s] <= iSeq[s] + cReadBufferSize
      BY <1>2, SeenInWindow, Zenon DEF SideOK
    <3>2. m \in Nat /\ m > iSeq[s] /\ cReadBufferSize \in Nat
      BY <1>7, SizeAssumption, Zenon DEF SizeAssumption
    <3> HIDE DEF m
    <3> QED
      BY <3>1, <3>2, <1>5, SMTT(30)
  <2>2. miss \in SUBSET (1..cReadBufferSize)
    BY <2>1, <1>5, <1>7, MissListInWindow, Zenon
  <2> QED
    BY <2>2, <1>7, AckPacketFields
<1> HIDE DEF c, ack, miss
<1>14. TypeOK'
  <2>1. /\ iSeq' \in [Side -> Nat] /\ iAckedSeq' \in [Side -> Nat]
        /\ readEnd' \in [Side -> BOOLEAN]
    BY <1>2, <1>6, <1>7, <1>8, <1>10, <1>12, Zenon DEF TypeOK
  <2>2. /\ readBuffer' \in [Side -> SUBSET [seq : Nat, data : Body, end : BOOLEAN]]
        /\ readLog' \in [Side -> Seq(Content)]
    BY <1>2, <1>9, <1>11, Zenon DEF TypeOK
  <2>3. net' \subseteq Packet
    BY <1>2, <1>12, <1>13, Zenon DEF TypeOK
  <2> QED
    BY <2>1, <2>2, <2>3, <1>2, <1>4, Zenon DEF TypeOK
<1>15. SideOK(s)'
  <2>1. CountersAt(s)'
    BY <1>2, <1>4, <1>8, <1>11, Zenon DEF SideOK, CountersAt
  <2>2. WindowAt(s)'
    <3>1. WindowAt(s)
      BY <1>2, Zenon DEF SideOK
    <3> QED
      BY <3>1, <1>4, <1>8, Zenon DEF WindowAt
  <2>3. WriteBufferAt(s)'
    <3>1. \A k \in DOMAIN writeBuffer[s] :
            /\ writeBuffer[s][k].pkt.ack \in Nat
            /\ EntryOK(writeBuffer[s][k].pkt, p, k, written[s], iSeq[s])
      BY <1>2, Zenon DEF SideOK, WriteBufferAt, TypeOK, Packet
    <3>2. \A k \in DOMAIN writeBuffer[s] :
            EntryOK(writeBuffer[s][k].pkt, p, k, written[s], m)
      <4>1. m \in Nat /\ iSeq[s] \in Nat /\ m > iSeq[s]
        BY <1>5, <1>7, Zenon
      <4> HIDE DEF m
      <4> QED
        BY <3>1, <4>1, SMTT(30) DEF EntryOK
    <3> QED
      BY <3>2, <1>2, <1>4, <1>8, Zenon DEF SideOK, WriteBufferAt
  <2>4. ReadBufferAt(s)'
    <3>1. ASSUME NEW f \in readBuffer[s], f # e
          PROVE  f.seq > m
      <4>1. f \in [seq : Nat, data : Body, end : BOOLEAN]
        BY <1>2, Zenon DEF TypeOK
      <4>2. f.data = written[p][f.seq].data /\ f.end = written[p][f.seq].end
        BY <1>2, Zenon DEF SideOK, ReadBufferAt
      <4>3. f.seq # m
        BY <4>1, <4>2, <1>6, <3>1, SMTT(30)
      <4> QED
        BY <4>1, <4>3, <1>6, <1>7, SMTT(30)
    <3> QED
      BY <3>1, <1>2, <1>4, <1>8, <1>9, Zenon DEF SideOK, ReadBufferAt
  <2>5. InOrderAt(s)'
    <3>1. \A k \in 1..iSeq[s] : readLog[s][k] = written[p][k]
      BY <1>2, Zenon DEF SideOK, InOrderAt
    <3>2. /\ m = iSeq[s] + 1 /\ iSeq[s] \in Nat /\ readLog'[s][m] = written[p][m]
          /\ \A k \in 1..iSeq[s] : readLog'[s][k] = readLog[s][k]
      BY <1>5, <1>6, <1>7, <1>11, Zenon
    <3> HIDE DEF m
    <3>3. \A k \in 1..m : k \in 1..iSeq[s] \/ k = m
      BY <3>2
    <3>4. \A k \in 1..m : readLog'[s][k] = written[p][k]
      BY <3>1, <3>2, <3>3, Zenon
    <3> QED
      BY <3>4, <1>4, <1>8, Zenon DEF InOrderAt
  <2>6. EndAt(s)'
    <3>1. EndAt(s) /\ EndAt(p)
      BY <1>2, Zenon DEF SideOK
    <3>2. e.end => deliveredEnd[p] /\ m = oSeq[p]
      BY <3>1, <1>6, <1>7, Zenon DEF EndAt
    <3> QED
      BY <3>1, <3>2, <1>4, <1>6, <1>8, <1>10, Zenon DEF EndAt
  <2>7. CloseAt(s)'
    BY <1>2, <1>4, Zenon DEF SideOK, CloseAt
  <2> QED
    BY <2>1, <2>2, <2>3, <2>4, <2>5, <2>6, <2>7, Zenon DEF SideOK
<1>16. SideOK(p)'
  <2>1. CountersAt(p)' /\ InOrderAt(p)' /\ CloseAt(p)'
    BY <1>1, <1>2, <1>4, <1>8, <1>10, <1>11, ZenonT(30)
       DEF SideOK, CountersAt, InOrderAt, CloseAt
  <2>4. WriteBufferAt(p)'
    BY <1>1, <1>2, <1>4, <1>8, Zenon DEF SideOK, WriteBufferAt
  <2>5. ReadBufferAt(p)'
    BY <1>1, <1>2, <1>4, <1>8, <1>9, Zenon DEF SideOK, ReadBufferAt
  <2>2. EndAt(p)'
    BY <1>1, <1>2, <1>4, <1>8, <1>10, Zenon DEF SideOK, EndAt
  <2>3. WindowAt(p)'
    <3>1. WindowAt(p)
      BY <1>2, Zenon DEF SideOK
    <3>2. oAckedSeq[p] <= iSeq[s]
      BY <3>1, <1>1, Zenon DEF WindowAt
    <3>3. oAckedSeq[p] <= m /\ m <= oSeq[p]
      BY <3>2, <1>5, <1>6, <1>7, SMTT(30)
    <3> HIDE DEF m
    <3> QED
      BY <3>1, <3>3, <1>1, <1>4, <1>8, Zenon DEF WindowAt
  <2> QED
    BY <2>1, <2>2, <2>3, <2>4, <2>5, Zenon DEF SideOK
<1>17. ASSUME NEW q \in net' PROVE PacketOK(q)'
  <2>1. CASE q = ack
    <3>1. /\ q.to = p /\ q.seq = 0 /\ q.ack = m
          /\ q.miss \subseteq 1..cReadBufferSize
      BY <2>1, <1>13, Zenon
    <3>2. /\ Peer(p) = s /\ iSeq'[s] = m /\ m \in Nat
          /\ iSeq'[p] = iSeq[p] /\ iSeq[p] \in Nat /\ oSeq' = oSeq /\ oSeq[s] \in Nat
      BY <1>1, <1>4, <1>5, <1>7, <1>8, Zenon
    <3> HIDE DEF m, p
    <3> QED
      BY <3>1, <3>2, SMTT(30) DEF PacketOK
  <2>2. CASE q \in net
    <3>1. PacketOK(q) /\ q \in Packet
      BY <2>2, <1>2, Zenon DEF TypeOK
    <3>2. q.to \in Side /\ q.seq \in Nat /\ q.ack \in Nat
      BY <3>1, Zenon DEF Packet
    <3>5. m \in Nat /\ iSeq[s] \in Nat /\ m > iSeq[s]
      BY <1>5, <1>7, Zenon
    <3>6. /\ iSeq'[s] = m /\ iSeq'[p] = iSeq[p] /\ oSeq' = oSeq /\ written' = written
          /\ Peer(s) = p /\ Peer(p) = s
      BY <1>1, <1>4, <1>8, Zenon
    <3> HIDE DEF m, p
    <3>3. CASE q.to = s
      <4>1. q.seq > m => q.seq > iSeq[s]
        BY <3>2, <3>5, SMTT(30)
      <4> QED
        BY <3>1, <3>3, <3>6, <4>1, Zenon DEF PacketOK
    <3>4. CASE q.to = p
      <4>1. q.ack <= iSeq[s] => q.ack <= m
        BY <3>2, <3>5
      <4> QED
        BY <3>1, <3>4, <3>6, <4>1, Zenon DEF PacketOK
    <3> QED
      BY <3>2, <3>3, <3>4, <1>1, Zenon
  <2> QED
    BY <2>1, <2>2, <1>12, Zenon
<1> QED
  BY <1>1, <1>14, <1>15, <1>16, <1>17, Zenon DEF IndInv


\* write: a buffered and delivered packet keeps the inductive invariant.
LEMMA WriteInv ==
  ASSUME IndInv, NEW s \in Side, NEW d \in Body, NEW end \in BOOLEAN,
         ~BlockWrite(s), Write(s, d, end), broken' \in [Side -> BOOLEAN]
  PROVE  IndInv'
<1> DEFINE n == oSeq[s] + 1
           pkt == NewPacket(s, d, end)
           c == [data |-> d, end |-> end]
           p == Peer(s)
<1>1. /\ p \in Side /\ Peer(p) = s /\ p # s
      /\ \A t \in Side : t = s \/ t = p
  BY PeerFacts, Zenon
<1>2. /\ TypeOK /\ SideOK(s) /\ SideOK(p)
      /\ \A q \in net : PacketOK(q)
  BY <1>1, Zenon DEF IndInv
<1>3. /\ pkt \in Packet /\ pkt.to = p /\ pkt.seq = n /\ pkt.data = d
      /\ pkt.end = end /\ pkt.ack <= iSeq[s] /\ pkt.miss \subseteq 1..cReadBufferSize
  BY <1>2, NewPacketOK DEF SideOK
<1>4. /\ oSeq[s] \in Nat /\ oAckedSeq[s] \in Nat /\ iSeq[s] \in Nat /\ iSeq[p] \in Nat
      /\ oSeq[p] \in Nat
      /\ written[s] \in Seq(Content) /\ Len(written[s]) = oSeq[s]
      /\ c \in Content /\ c.data = d /\ c.end = end
  BY <1>1, <1>2, Zenon DEF TypeOK, SideOK, CountersAt, Content
<1>5. /\ written' = [written EXCEPT ![s] = Append(@, c)]
      /\ written'[s] \in Seq(Content)
      /\ Len(written'[s]) = n
      /\ written'[s][n] = c
      /\ \A k \in 1..oSeq[s] : written'[s][k] = written[s][k]
      /\ written'[p] = written[p]
  <2>1. written' = [written EXCEPT ![s] = Append(@, c)]
    BY Zenon DEF Write
  <2>2. written'[s] = Append(written[s], c) /\ written'[p] = written[p]
    BY <2>1, <1>1, <1>2, Zenon DEF TypeOK
  <2> QED
    BY <2>1, <2>2, <1>4
<1>6. /\ oSeq' = [oSeq EXCEPT ![s] = n]
      /\ oSeq'[s] = n /\ oSeq'[p] = oSeq[p]
  BY <1>1, <1>2, Zenon DEF Write, TypeOK
<1>7. /\ writeBuffer'[p] = writeBuffer[p]
      /\ DOMAIN writeBuffer' = Side
      /\ DOMAIN writeBuffer'[s] = DOMAIN writeBuffer[s] \cup {n}
      /\ writeBuffer'[s][n] = [pkt |-> pkt, resent |-> FALSE]
      /\ \A k \in DOMAIN writeBuffer[s] : k # n => writeBuffer'[s][k] = writeBuffer[s][k]
  BY <1>1, <1>2, Zenon DEF Write, TypeOK
<1>8. net' = net \cup {pkt}
  BY Zenon DEF Write
<1>9. /\ ~deliveredEnd[s] /\ deliveredEnd' = [deliveredEnd EXCEPT ![s] = end]
      /\ deliveredEnd'[s] = end /\ deliveredEnd'[p] = deliveredEnd[p]
  BY <1>1, <1>2, Zenon DEF Write, TypeOK
<1>10. UNCHANGED <<iSeenSeq, iSeq, oAckedSeq, readEnd, closed, readBuffer,
                   resending, readLog>>
  BY Zenon DEF Write
<1>11. oSeq[s] < oAckedSeq[s] + cWriteBufferSize
  <2>1. DOMAIN writeBuffer[s] = oAckedSeq[s] + 1 .. oSeq[s]
    BY <1>2, Zenon DEF SideOK, WriteBufferAt
  <2>2. ~(Cardinality(DOMAIN writeBuffer[s]) >= cWriteBufferSize)
    BY Zenon DEF BlockWrite
  <2>3. oAckedSeq[s] + 1 \in Int /\ oSeq[s] \in Int
    BY <1>4
  <2>4. Cardinality(oAckedSeq[s] + 1 .. oSeq[s])
          = IF oAckedSeq[s] + 1 > oSeq[s] THEN 0 ELSE oSeq[s] - (oAckedSeq[s] + 1) + 1
    BY <2>3, FS_Interval, Zenon
  <2>5. ~(Cardinality(oAckedSeq[s] + 1 .. oSeq[s]) >= cWriteBufferSize)
    BY <2>1, <2>2, Zenon
  <2> QED
    BY <2>4, <2>5, <1>4, SizeAssumption DEF SizeAssumption
<1> HIDE DEF pkt, c
<1>12. TypeOK'
  <2>1. iAckedSeq' \in [Side -> Nat] /\ needsResend' \in [Side -> BOOLEAN]
    BY <1>2, <1>4, Zenon DEF Write, TypeOK
  <2>2. oSeq' \in [Side -> Nat] /\ deliveredEnd' \in [Side -> BOOLEAN]
    BY <1>2, <1>4, <1>6, <1>9, SMTT(30) DEF TypeOK
  <2>3. net' \subseteq Packet
    BY <1>2, <1>3, <1>8, Zenon DEF TypeOK
  <2>4. written' \in [Side -> Seq(Content)]
    BY <1>2, <1>5, Zenon DEF TypeOK
  <2>5. /\ DOMAIN writeBuffer'[s] \subseteq Nat
        /\ \A k \in DOMAIN writeBuffer'[s] :
             writeBuffer'[s][k] \in [pkt : Packet, resent : BOOLEAN]
    <3>1. n \in Nat
      BY <1>4
    <3>2. writeBuffer'[s][n] \in [pkt : Packet, resent : BOOLEAN]
      BY <1>3, <1>7
    <3>3. /\ DOMAIN writeBuffer[s] \subseteq Nat
          /\ \A k \in DOMAIN writeBuffer[s] :
               writeBuffer[s][k] \in [pkt : Packet, resent : BOOLEAN]
      BY <1>2, Zenon DEF TypeOK
    <3> HIDE DEF n
    <3> QED
      BY <3>1, <3>2, <3>3, <1>7, Zenon
  <2>6. /\ DOMAIN writeBuffer'[p] \subseteq Nat
        /\ \A k \in DOMAIN writeBuffer'[p] :
             writeBuffer'[p][k] \in [pkt : Packet, resent : BOOLEAN]
    BY <1>1, <1>2, <1>7, Zenon DEF TypeOK
  <2> QED
    BY <2>1, <2>2, <2>3, <2>4, <2>5, <2>6, <1>1, <1>2, <1>7, <1>10, Zenon DEF TypeOK
<1>13. SideOK(s)'
  <2>1. CountersAt(s)'
    BY <1>2, <1>5, <1>6, <1>10, Zenon DEF SideOK, CountersAt
  <2>2. WindowAt(s)'
    <3>1. iSeenSeq[p] \in Nat /\ resending[s] \in Nat /\ cWriteBufferSize \in Nat
      BY <1>1, <1>2, SizeAssumption DEF TypeOK, SizeAssumption
    <3>2. WindowAt(s)
      BY <1>2, Zenon DEF SideOK
    <3> QED
      BY <3>1, <3>2, <1>4, <1>6, <1>10, <1>11, SMTT(30) DEF WindowAt
  <2>3. WriteBufferAt(s)'
    <3>1. DOMAIN writeBuffer'[s] = oAckedSeq'[s] + 1 .. oSeq'[s]
      <4>1. n \in Nat /\ oAckedSeq[s] < n
        BY <1>1, <1>2, <1>4, SMTT(30) DEF SideOK, WindowAt
      <4>2. DOMAIN writeBuffer'[s] = (oAckedSeq[s] + 1 .. oSeq[s]) \cup {n}
        BY <1>2, <1>7, Zenon DEF SideOK, WriteBufferAt
      <4>3. (oAckedSeq[s] + 1 .. oSeq[s]) \cup {n} = oAckedSeq[s] + 1 .. n
        BY <4>1, <1>4, SMTT(30)
      <4> QED
        BY <4>2, <4>3, <1>6, <1>10, Zenon
    <3>2. EntryOK(pkt, p, n, written'[s], iSeq'[s])
      BY <1>1, <1>3, <1>4, <1>5, <1>10, Zenon DEF EntryOK
    <3>3. ASSUME NEW k \in DOMAIN writeBuffer[s]
          PROVE  EntryOK(writeBuffer'[s][k].pkt, p, k, written'[s], iSeq'[s]) /\ k # n
      <4>1. k \in 1..oSeq[s] /\ EntryOK(writeBuffer[s][k].pkt, p, k, written[s], iSeq[s])
        BY <1>2, <1>4 DEF SideOK, WriteBufferAt
      <4>2. k # n /\ writeBuffer'[s][k] = writeBuffer[s][k]
        BY <4>1, <1>4, <1>7, SMTT(30)
      <4> QED
        BY <4>1, <4>2, <1>5, <1>10, Zenon DEF EntryOK
    <3> QED
      BY <3>1, <3>2, <3>3, <1>7 DEF WriteBufferAt
  <2>4. ReadBufferAt(s)'
    BY <1>1, <1>2, <1>5, <1>6, <1>10, Zenon DEF SideOK, ReadBufferAt
  <2>5. InOrderAt(s)'
    BY <1>1, <1>2, <1>5, <1>10, Zenon DEF SideOK, InOrderAt
  <2>6. EndAt(s)'
    <3>1. EndAt(s) /\ EndAt(p)
      BY <1>2, Zenon DEF SideOK
    <3>2. /\ oSeq'[s] = n /\ written'[s][n].end = end /\ n \in Nat /\ n > 0
          /\ deliveredEnd'[s] = end /\ ~deliveredEnd[s]
      BY <1>4, <1>5, <1>6, <1>9, SMTT(30)
    <3>3. \A k \in 1..oSeq[s] : written'[s][k] = written[s][k] /\ ~written[s][k].end
      BY <3>1, <1>5, <1>9, Zenon DEF EndAt
    <3>4. \A k \in 1..n : k \in 1..oSeq[s] \/ k = n
      BY <1>4
    <3>5. /\ oSeq'[p] = oSeq[p] /\ deliveredEnd'[p] = deliveredEnd[p]
          /\ written'[p] = written[p] /\ iSeq' = iSeq /\ readEnd' = readEnd
      BY <1>5, <1>6, <1>9, <1>10, Zenon
    <3> HIDE DEF n
    <3>6. \A k \in 1..n : written'[s][k].end => end /\ k = n
      BY <3>2, <3>3, <3>4, Zenon
    <3> QED
      BY <3>1, <3>2, <3>5, <3>6, Zenon DEF EndAt
  <2>7. CloseAt(s)'
    BY <1>2, <1>9, <1>10, Zenon DEF SideOK, CloseAt
  <2> QED
    BY <2>1, <2>2, <2>3, <2>4, <2>5, <2>6, <2>7, Zenon DEF SideOK
<1>14. SideOK(p)'
  <2>1. CountersAt(p)' /\ WriteBufferAt(p)'
    BY <1>1, <1>2, <1>5, <1>6, <1>7, <1>10, Zenon
       DEF SideOK, CountersAt, WriteBufferAt
  <2>2. WindowAt(p)'
    BY <1>1, <1>2, <1>4, <1>6, <1>10, Zenon DEF SideOK, WindowAt, TypeOK
  <2>3. ReadBufferAt(p)'
    <3>1. ReadBufferAt(p) /\ Peer(p) = s
      BY <1>1, <1>2, Zenon DEF SideOK
    <3>2. \A e \in readBuffer[p] : e.seq \in Nat
      BY <1>1, <1>2 DEF TypeOK
    <3>3. /\ readBuffer' = readBuffer /\ iSeq' = iSeq /\ oSeq'[s] = oSeq[s] + 1
          /\ \A k \in 1..oSeq[s] : written'[s][k] = written[s][k]
      BY <1>5, <1>6, <1>10, Zenon
    <3>4. iSeq[p] \in Nat /\ oSeq[s] \in Nat
      BY <1>4, Zenon
    <3> HIDE DEF p
    <3>5. ASSUME NEW e \in readBuffer[p]
          PROVE  /\ e.seq > iSeq[p] /\ e.seq <= oSeq[s] + 1
                 /\ e.data = written'[s][e.seq].data /\ e.end = written'[s][e.seq].end
      <4>1. /\ e.seq > iSeq[p] /\ e.seq <= oSeq[s]
            /\ e.data = written[s][e.seq].data /\ e.end = written[s][e.seq].end
        BY <3>1, Zenon DEF ReadBufferAt
      <4>2. e.seq \in 1..oSeq[s] /\ e.seq <= oSeq[s] + 1
        BY <4>1, <3>2, <3>4
      <4> QED
        BY <4>1, <4>2, <3>3, Zenon
    <3> QED
      BY <3>1, <3>3, <3>5, Zenon DEF ReadBufferAt
  <2>4. InOrderAt(p)'
    <3>1. InOrderAt(p) /\ iSeq[p] <= oSeq[s]
      BY <1>2, Zenon DEF SideOK, WindowAt
    <3>2. \A k \in 1..iSeq[p] : written'[s][k] = written[s][k]
      BY <3>1, <1>4, <1>5
    <3>3. readLog' = readLog /\ iSeq' = iSeq /\ Peer(p) = s
      BY <1>1, <1>10, Zenon
    <3> HIDE DEF p
    <3> QED
      BY <3>1, <3>2, <3>3, Zenon DEF InOrderAt
  <2>5. EndAt(p)'
    <3>1. EndAt(p) /\ iSeq[p] <= oSeq[s]
      BY <1>2, Zenon DEF SideOK, WindowAt
    <3>2. /\ oSeq'[p] = oSeq[p] /\ written'[p] = written[p]
          /\ deliveredEnd'[p] = deliveredEnd[p] /\ iSeq' = iSeq /\ readEnd' = readEnd
          /\ Peer(p) = s
      BY <1>1, <1>5, <1>6, <1>9, <1>10, Zenon
    <3>3. ~readEnd[p]
      BY <3>1, <3>2, <1>9, Zenon DEF EndAt
    <3>4. iSeq[p] > 0 => written'[s][iSeq[p]] = written[s][iSeq[p]]
      BY <3>1, <1>4, <1>5, SMTT(30)
    <3> HIDE DEF n, p
    <3> QED
      BY <3>1, <3>2, <3>3, <3>4, Zenon DEF EndAt
  <2>6. CloseAt(p)'
    BY <1>1, <1>2, <1>6, <1>9, <1>10, Zenon DEF SideOK, CloseAt
  <2> QED
    BY <2>1, <2>2, <2>3, <2>4, <2>5, <2>6, Zenon DEF SideOK
<1>15. ASSUME NEW q \in net' PROVE PacketOK(q)'
  <2>1. CASE q = pkt
    <3>1. /\ q.to = p /\ q.seq = n /\ q.data = c.data /\ q.end = c.end
          /\ q.ack <= iSeq[s] /\ q.miss \subseteq 1..cReadBufferSize
      BY <2>1, <1>3, <1>4, Zenon
    <3>2. /\ Peer(p) = s /\ iSeq' = iSeq /\ oSeq'[s] = n /\ n \in Nat
          /\ written'[s][n] = c
      BY <1>1, <1>4, <1>5, <1>6, <1>10
    <3> HIDE DEF n, p
    <3> QED
      BY <3>1, <3>2 DEF PacketOK
  <2>2. CASE q \in net
    <3>1. PacketOK(q) /\ q \in Packet
      BY <2>2, <1>2, Zenon DEF TypeOK
    <3>2. q.to \in Side /\ q.seq \in Nat
      BY <3>1, Zenon DEF Packet
    <3>3. CASE q.to = s
      BY <3>1, <3>2, <3>3, <1>1, <1>5, <1>6, <1>10, Zenon DEF PacketOK
    <3>4. CASE q.to = p
      BY <3>1, <3>2, <3>4, <1>1, <1>4, <1>5, <1>6, <1>10, SMTT(30) DEF PacketOK
    <3> QED
      BY <3>2, <3>3, <3>4, <1>1, Zenon
  <2> QED
    BY <2>1, <2>2, <1>8, Zenon
<1> QED
  BY <1>1, <1>12, <1>13, <1>14, <1>15, Zenon DEF IndInv

\* receivedPacket, with its acks, resends and buffering, keeps the invariant.
LEMMA ReceivedPacketInv ==
  ASSUME IndInv, NEW s \in Side, NEW q \in net, ReceivedPacket(s, q)
  PROVE  IndInv'
<1> DEFINE p == Peer(s)
           kept == Restriction(writeBuffer[s],
                               DOMAIN writeBuffer[s] \ NewlyAcked(s, q.ack))
           omiss == BuildMissList(iSeq[s], iSeenSeq[s], BufferedSeqs(s))
           seen == Larger(iSeenSeq[s], q.seq)
           accepted == q.seq # 0 /\ Accepts(s, q.seq)
           endAck == accepted /\ q.end
           ack == AckPacket(s, iSeq[s], BuildMissList(iSeq[s], seen, BufferedSeqs(s)))
           new(k) == Refreshed(kept[k].pkt, iSeq[s], omiss)
           acked == Larger(oAckedSeq[s], q.ack)
           entry == [seq |-> q.seq, data |-> q.data, end |-> q.end]
<1>1. /\ p \in Side /\ Peer(p) = s /\ p # s
      /\ \A t \in Side : t = s \/ t = p
  BY PeerFacts, Zenon
<1>2. /\ TypeOK /\ SideOK(s) /\ SideOK(p)
      /\ \A x \in net : PacketOK(x)
  BY <1>1, Zenon DEF IndInv
<1>3. /\ iSeq[s] \in Nat /\ iSeq[p] \in Nat /\ oSeq[s] \in Nat /\ oSeq[p] \in Nat
      /\ oAckedSeq[p] \in Nat /\ oAckedSeq[s] \in Nat /\ iSeenSeq[s] \in Nat
  BY <1>1, <1>2, Zenon DEF TypeOK
<1>4. /\ q \in Packet /\ q.seq \in Nat /\ q.ack \in Nat /\ q.data \in Body
      /\ q.end \in BOOLEAN /\ q.to = s
      /\ q.ack <= iSeq[p] /\ q.seq <= oSeq[p]
      /\ q.seq > iSeq[s] =>
           /\ q.data = written[p][q.seq].data
           /\ q.end = written[p][q.seq].end
  BY <1>2, ZenonT(30) DEF ReceivedPacket, TypeOK, Packet, PacketOK
<1>5. PICK R \in Resendable(kept, q.ack, q.miss) :
        /\ writeBuffer' = [writeBuffer EXCEPT ![s] =
             [k \in DOMAIN kept |->
                IF k \in R THEN [pkt |-> new(k), resent |-> TRUE] ELSE kept[k]]]
        /\ net' = net \cup {new(k) : k \in R} \cup (IF endAck THEN {ack} ELSE {})
  <2>1. PICK R \in Resendable(kept, q.ack, q.miss) :
          LET sent == [n \in R |-> Refreshed(kept[n].pkt, iSeq[s], omiss)]
          IN /\ writeBuffer' = [writeBuffer EXCEPT ![s] =
                  [n \in DOMAIN kept |->
                     IF n \in R THEN [pkt |-> sent[n], resent |-> TRUE]
                     ELSE kept[n]]]
             /\ net' = net \cup {sent[n] : n \in R}
                           \cup (IF endAck THEN {ack} ELSE {})
    BY Zenon DEF ReceivedPacket
  <2> HIDE DEF kept, omiss, endAck, ack
  <2>2. {[n \in R |-> Refreshed(kept[n].pkt, iSeq[s], omiss)][k] : k \in R}
          = {new(k) : k \in R}
    BY Zenon
  <2>3. [k \in DOMAIN kept |->
            IF k \in R
            THEN [pkt |-> [n \in R |-> Refreshed(kept[n].pkt, iSeq[s], omiss)][k],
                  resent |-> TRUE]
            ELSE kept[k]]
          = [k \in DOMAIN kept |->
                IF k \in R THEN [pkt |-> new(k), resent |-> TRUE] ELSE kept[k]]
    BY Zenon
  <2> QED
    BY <2>1, <2>2, <2>3, Zenon
<1>6. /\ oAckedSeq' = [oAckedSeq EXCEPT ![s] = acked]
      /\ needsResend' = [needsResend EXCEPT ![s] =
                           @ /\ ~(q.ack # 0 /\ DOMAIN kept = {})]
      /\ iSeenSeq' = [iSeenSeq EXCEPT ![s] = seen]
      /\ readBuffer' = [readBuffer EXCEPT ![s] =
                          IF accepted THEN @ \cup {entry} ELSE @]
      /\ iAckedSeq' = [iAckedSeq EXCEPT ![s] =
                         IF endAck /\ iSeq[s] # 0 THEN iSeq[s] ELSE @]
      /\ UNCHANGED <<oSeq, iSeq, deliveredEnd, readEnd, broken, closed, resending,
                     written, readLog>>
  BY Zenon DEF ReceivedPacket
<1>frame. /\ oSeq' = oSeq /\ iSeq' = iSeq /\ deliveredEnd' = deliveredEnd
          /\ readEnd' = readEnd /\ broken' = broken /\ closed' = closed
          /\ resending' = resending /\ written' = written /\ readLog' = readLog
  BY <1>6, Zenon
<1>7. /\ acked \in Nat /\ oAckedSeq[s] <= acked /\ acked <= iSeq[p]
      /\ acked = oAckedSeq[s] \/ acked = q.ack
      /\ q.ack <= acked
      /\ seen \in Nat /\ iSeenSeq[s] <= seen /\ seen <= oSeq[p]
  <2>1. oAckedSeq[s] <= iSeq[p] /\ iSeenSeq[s] <= oSeq[p]
    BY <1>1, <1>2, Zenon DEF SideOK, WindowAt
  <2>2. /\ acked \in Nat /\ oAckedSeq[s] <= acked /\ q.ack <= acked
        /\ acked = oAckedSeq[s] \/ acked = q.ack
    BY <1>3, <1>4, LargerFacts, Zenon
  <2>3. /\ seen \in Nat /\ iSeenSeq[s] <= seen
        /\ seen = iSeenSeq[s] \/ seen = q.seq
    BY <1>3, <1>4, LargerFacts, Zenon
  <2>4. q.ack <= iSeq[p] /\ q.seq <= oSeq[p]
    BY <1>4, Zenon
  <2> HIDE DEF acked, seen
  <2> QED
    BY <2>1, <2>2, <2>3, <2>4, Zenon
<1>8. /\ oAckedSeq'[s] = acked /\ oAckedSeq'[p] = oAckedSeq[p]
      /\ iSeenSeq'[s] = seen /\ iSeenSeq'[p] = iSeenSeq[p]
      /\ readBuffer'[s] = (IF accepted THEN readBuffer[s] \cup {entry} ELSE readBuffer[s])
      /\ readBuffer'[p] = readBuffer[p]
  BY <1>1, <1>2, <1>6, Zenon DEF TypeOK
<1>9. /\ DOMAIN kept = acked + 1 .. oSeq[s]
      /\ R \subseteq DOMAIN kept
      /\ \A k \in DOMAIN kept : kept[k] = writeBuffer[s][k] /\ k \in DOMAIN writeBuffer[s]
  <2>1. DOMAIN writeBuffer[s] = oAckedSeq[s] + 1 .. oSeq[s]
    BY <1>2, Zenon DEF SideOK, WriteBufferAt
  <2>2. DOMAIN kept = DOMAIN writeBuffer[s] \ (oAckedSeq[s] + 1 .. q.ack)
    BY Zenon DEF Restriction, NewlyAcked
  <2>3. DOMAIN kept = acked + 1 .. oSeq[s]
    <3>1. /\ oAckedSeq[s] \in Nat /\ oSeq[s] \in Nat /\ q.ack \in Nat /\ acked \in Nat
          /\ oAckedSeq[s] <= acked /\ q.ack <= acked
          /\ acked = oAckedSeq[s] \/ acked = q.ack
      BY <1>3, <1>4, <1>7, Zenon
    <3> HIDE DEF kept, acked
    <3>2. acked + 1 .. oSeq[s]
            = (oAckedSeq[s] + 1 .. oSeq[s]) \ (oAckedSeq[s] + 1 .. q.ack)
      BY <3>1
    <3> QED
      BY <2>1, <2>2, <3>2, Zenon
  <2>4. \A k \in DOMAIN kept : kept[k] = writeBuffer[s][k] /\ k \in DOMAIN writeBuffer[s]
    BY Zenon DEF Restriction
  <2>5. R \subseteq DOMAIN kept
    <3> HIDE DEF kept
    <3> QED
      BY <1>5, Zenon DEF Resendable
  <2> QED
    BY <2>3, <2>4, <2>5, Zenon
<1>10. omiss \in SUBSET (1..cReadBufferSize)
  BY <1>1, <1>2, CurrentMissList, Zenon DEF SideOK
<1>11. ack \in Packet /\ PacketOK(ack)
  <2>1. seen <= iSeq[s] + cReadBufferSize
    <3>1. oSeq[p] <= iSeq[s] + cReadBufferSize
      BY <1>2, SeenInWindow, Zenon DEF SideOK
    <3>2. seen \in Nat /\ seen <= oSeq[p] /\ cReadBufferSize \in Nat
      BY <1>7, SizeAssumption, Zenon DEF SizeAssumption
    <3> HIDE DEF seen
    <3> QED
      BY <3>1, <3>2, <1>3
  <2>2. BuildMissList(iSeq[s], seen, BufferedSeqs(s)) \in SUBSET (1..cReadBufferSize)
    BY <2>1, <1>3, <1>7, MissListInWindow, Zenon
  <2> QED
    BY <2>2, <1>2, AckPacketOK, Zenon
<1> HIDE DEF kept, omiss, seen, endAck, ack, acked
<1>12. \A k \in DOMAIN kept :
         /\ k \in 1..oSeq[s]
         /\ kept[k] \in [pkt : Packet, resent : BOOLEAN]
         /\ EntryOK(kept[k].pkt, p, k, written[s], iSeq[s])
         /\ new(k) \in Packet /\ EntryOK(new(k), p, k, written[s], iSeq[s])
  <2> SUFFICES ASSUME NEW k \in DOMAIN kept
               PROVE /\ k \in 1..oSeq[s]
                     /\ kept[k] \in [pkt : Packet, resent : BOOLEAN]
                     /\ EntryOK(kept[k].pkt, p, k, written[s], iSeq[s])
                     /\ new(k) \in Packet /\ EntryOK(new(k), p, k, written[s], iSeq[s])
    BY Zenon
  <2>1. k \in 1..oSeq[s]
    BY <1>3, <1>7, <1>9, SMTT(30)
  <2>2. /\ kept[k] \in [pkt : Packet, resent : BOOLEAN]
        /\ EntryOK(kept[k].pkt, p, k, written[s], iSeq[s])
    BY <1>2, <1>9, Zenon DEF TypeOK, SideOK, WriteBufferAt
  <2>3. kept[k].pkt \in Packet
    BY <2>2, Zenon
  <2> QED
    BY <2>1, <2>2, <2>3, <1>3, <1>10, RefreshedOK, Zenon
<1> HIDE DEF new
<1>13. /\ DOMAIN writeBuffer' = Side
       /\ writeBuffer'[p] = writeBuffer[p]
       /\ DOMAIN writeBuffer'[s] = DOMAIN kept
       /\ \A k \in DOMAIN kept :
            /\ writeBuffer'[s][k] \in [pkt : Packet, resent : BOOLEAN]
            /\ EntryOK(writeBuffer'[s][k].pkt, p, k, written[s], iSeq[s])
  <2>1. DOMAIN writeBuffer = Side
    BY <1>2, Zenon DEF TypeOK
  <2>2. /\ DOMAIN writeBuffer' = Side
        /\ writeBuffer'[p] = writeBuffer[p]
        /\ writeBuffer'[s] = [k \in DOMAIN kept |->
              IF k \in R THEN [pkt |-> new(k), resent |-> TRUE] ELSE kept[k]]
    BY <2>1, <1>1, <1>5, Zenon
  <2>3. ASSUME NEW k \in DOMAIN kept
        PROVE  /\ writeBuffer'[s][k] \in [pkt : Packet, resent : BOOLEAN]
               /\ EntryOK(writeBuffer'[s][k].pkt, p, k, written[s], iSeq[s])
    <3>1. CASE k \in R
      <4>1. writeBuffer'[s][k] = [pkt |-> new(k), resent |-> TRUE]
        BY <3>1, <2>2, Zenon
      <4> QED
        BY <4>1, <1>12
    <3>2. CASE k \notin R
      <4>1. writeBuffer'[s][k] = kept[k]
        BY <3>2, <2>2, Zenon
      <4> QED
        BY <4>1, <1>12, Zenon
    <3> QED
      BY <3>1, <3>2, Zenon
  <2> QED
    BY <2>2, <2>3, Zenon
<1>14. net' \subseteq Packet /\ \A x \in net' : PacketOK(x)
  <2>1. \A k \in DOMAIN kept : new(k) \in Packet /\ PacketOK(new(k))
    BY <1>2, <1>12, EntryIsPacketOK, Zenon
  <2>2. net \subseteq Packet
    BY <1>2, Zenon DEF TypeOK
  <2> QED
    BY <2>1, <2>2, <1>2, <1>5, <1>9, <1>11, Zenon
<1>15. TypeOK'
  <2>1. /\ oAckedSeq' \in [Side -> Nat] /\ iSeenSeq' \in [Side -> Nat]
        /\ iAckedSeq' \in [Side -> Nat]
    BY <1>2, <1>3, <1>6, <1>7, Zenon DEF TypeOK
  <2>2. needsResend' \in [Side -> BOOLEAN]
    BY <1>2, <1>6, Zenon DEF TypeOK
  <2>3. readBuffer' \in [Side -> SUBSET [seq : Nat, data : Body, end : BOOLEAN]]
    <3>1. entry \in [seq : Nat, data : Body, end : BOOLEAN]
      BY <1>4, Zenon
    <3> QED
      BY <3>1, <1>2, <1>6, Zenon DEF TypeOK
  <2>4. \A t \in Side :
          /\ DOMAIN writeBuffer'[t] \subseteq Nat
          /\ \A k \in DOMAIN writeBuffer'[t] :
               writeBuffer'[t][k] \in [pkt : Packet, resent : BOOLEAN]
    <3>1. DOMAIN kept \subseteq Nat
      BY <1>12
    <3> QED
      BY <3>1, <1>1, <1>2, <1>13, Zenon DEF TypeOK
  <2> QED
    BY <2>1, <2>2, <2>3, <2>4, <1>2, <1>6, <1>13, <1>14, Zenon DEF TypeOK
<1>16. SideOK(s)'
  <2>1. CountersAt(s)' /\ InOrderAt(s)' /\ EndAt(s)'
    BY <1>2, <1>6, Zenon DEF SideOK, CountersAt, InOrderAt, EndAt
  <2>2. WindowAt(s)'
    <3>1. WindowAt(s)
      BY <1>2, Zenon DEF SideOK
    <3>2. oSeq[s] <= oAckedSeq[s] + cWriteBufferSize /\ cWriteBufferSize \in Nat
      BY <3>1, SizeAssumption DEF WindowAt, SizeAssumption
    <3>3. acked <= iSeq[p] /\ oSeq[s] <= acked + cWriteBufferSize
      BY <3>2, <1>3, <1>7, SMTT(30)
    <3> QED
      BY <3>1, <3>3, <1>8, <1>frame, Zenon DEF WindowAt
  <2>3. WriteBufferAt(s)'
    BY <1>6, <1>8, <1>9, <1>13, Zenon DEF WriteBufferAt
  <2>4. ReadBufferAt(s)'
    <3>1. ReadBufferAt(s)
      BY <1>2, Zenon DEF SideOK
    <3>2. accepted => q.seq > iSeq[s]
      BY Zenon DEF Accepts
    <3>3. /\ entry.seq = q.seq /\ entry.data = q.data /\ entry.end = q.end
      BY Zenon
    <3> HIDE DEF accepted, entry
    <3>4. CASE ~accepted
      BY <3>1, <3>4, <1>8, <1>frame, Zenon DEF ReadBufferAt
    <3>5. CASE accepted
      <4>1. /\ entry.seq > iSeq[s] /\ entry.seq <= oSeq[p]
            /\ entry.data = written[p][entry.seq].data
            /\ entry.end = written[p][entry.seq].end
        BY <3>2, <3>3, <3>5, <1>4, Zenon
      <4>2. readBuffer'[s] = readBuffer[s] \cup {entry}
        BY <3>5, <1>8, Zenon
      <4> QED
        BY <3>1, <4>1, <4>2, <1>frame, Zenon DEF ReadBufferAt
    <3> QED
      BY <3>4, <3>5, Zenon
  <2>5. CloseAt(s)'
    <3>1. CloseAt(s) /\ iSeq[p] <= oSeq[s]
      BY <1>2, Zenon DEF SideOK, WindowAt
    <3>2. oAckedSeq[s] = oSeq[s] => acked = oSeq[s]
      BY <3>1, <1>3, <1>7, SMTT(30)
    <3> QED
      BY <3>1, <3>2, <1>8, <1>frame, Zenon DEF CloseAt
  <2> QED
    BY <2>1, <2>2, <2>3, <2>4, <2>5, Zenon DEF SideOK
<1>17. SideOK(p)'
  <2>1. CountersAt(p)' /\ InOrderAt(p)' /\ EndAt(p)' /\ CloseAt(p)'
    BY <1>2, <1>6, <1>8, Zenon DEF SideOK, CountersAt, InOrderAt, EndAt, CloseAt
  <2>2. WindowAt(p)'
    BY <1>1, <1>2, <1>6, <1>7, <1>8, Zenon DEF SideOK, WindowAt
  <2>3. WriteBufferAt(p)'
    BY <1>2, <1>6, <1>8, <1>13, Zenon DEF SideOK, WriteBufferAt
  <2>4. ReadBufferAt(p)'
    BY <1>2, <1>6, <1>8, Zenon DEF SideOK, ReadBufferAt
  <2> QED
    BY <2>1, <2>2, <2>3, <2>4, Zenon DEF SideOK
<1>18. ASSUME NEW x \in net' PROVE PacketOK(x)'
  BY <1>6, <1>14, Zenon DEF PacketOK
<1> QED
  BY <1>1, <1>15, <1>16, <1>17, <1>18, Zenon DEF IndInv

\* The return of Close keeps the inductive invariant.
LEMMA CloseReturnsInv ==
  ASSUME IndInv, NEW s \in Side, CloseReturns(s)
  PROVE  IndInv'
<1>1. /\ TypeOK /\ closed' = [closed EXCEPT ![s] = TRUE]
      /\ deliveredEnd[s] /\ readEnd[s] /\ DOMAIN writeBuffer[s] = {}
      /\ UNCHANGED <<oSeq, iSeenSeq, iSeq, oAckedSeq, iAckedSeq, deliveredEnd, readEnd,
                     needsResend, broken, readBuffer, writeBuffer, resending, net,
                     written, readLog>>
  BY Zenon DEF IndInv, CloseReturns, BlockClose, seqVars
<1>2. TypeOK'
  BY <1>1, Zenon DEF TypeOK
<1>3. ASSUME NEW t \in Side PROVE SideOK(t)'
  <2>1. SideOK(t)
    BY Zenon DEF IndInv
  <2>2. CountersAt(t)' /\ WindowAt(t)' /\ InOrderAt(t)'
    BY <2>1, <1>1, Zenon DEF SideOK, CountersAt, WindowAt, InOrderAt
  <2>3. WriteBufferAt(t)' /\ ReadBufferAt(t)' /\ EndAt(t)'
    BY <2>1, <1>1, Zenon DEF SideOK, WriteBufferAt, ReadBufferAt, EndAt
  <2>4. CloseAt(t)'
    <3>1. CASE t = s
      <4>1. Peer(s) \in Side
        BY PeerFacts, Zenon
      <4>2. /\ oAckedSeq[s] \in Nat /\ oSeq[s] \in Nat /\ iSeq[Peer(s)] \in Nat
            /\ oAckedSeq[s] <= iSeq[Peer(s)] /\ iSeq[Peer(s)] <= oSeq[s]
        BY <2>1, <3>1, <4>1, <1>1, Zenon DEF TypeOK, SideOK, WindowAt
      <4>3. oAckedSeq[s] + 1 .. oSeq[s] = {}
        BY <2>1, <3>1, <1>1, Zenon DEF SideOK, WriteBufferAt
      <4>4. oAckedSeq[s] = oSeq[s]
        BY <4>2, <4>3, SMTT(30)
      <4> QED
        BY <3>1, <4>4, <1>1, Zenon DEF CloseAt
    <3>2. CASE t # s
      BY <2>1, <3>2, <1>1, Zenon DEF SideOK, CloseAt, TypeOK
    <3> QED
      BY <3>1, <3>2, Zenon
  <2> QED
    BY <2>2, <2>3, <2>4, Zenon DEF SideOK
<1>4. ASSUME NEW p \in net' PROVE PacketOK(p)'
  BY <1>1, Zenon DEF IndInv, PacketOK
<1> QED
  BY <1>2, <1>3, <1>4, Zenon DEF IndInv

\* Kill, Lose and a step that changes nothing.
LEMMA QuietInv ==
  ASSUME IndInv, broken' \in [Side -> BOOLEAN], net' \subseteq net,
         UNCHANGED <<seqVars, deliveredEnd, readEnd, needsResend, closed, readBuffer,
                     writeBuffer, resending, written, readLog>>
  PROVE  IndInv'
<1>1. TypeOK'
  BY Zenon DEF IndInv, TypeOK, seqVars
<1>2. \A t \in Side : WriteBufferAt(t)'
  BY Zenon DEF IndInv, SideOK, WriteBufferAt, seqVars
<1>3. \A t \in Side : iSeenSeq'[Peer(t)] <= oSeq[t] /\ resending'[t] <= oSeq[t]
  BY Zenon DEF IndInv, SideOK, WindowAt, seqVars
<1>4. \A p \in net' : PacketOK(p)
  BY Zenon DEF IndInv
<1> QED
  BY <1>1, <1>2, <1>3, <1>4, FrameInv, Zenon DEF seqVars

\* Every step keeps the inductive invariant.
LEMMA NextInv == IndInv /\ [Next]_vars => IndInv'
<1> SUFFICES ASSUME IndInv, [Next]_vars PROVE IndInv'
  BY Zenon
<1>1. ASSUME NEW s \in Side, NEW d \in Body, NEW end \in BOOLEAN, WritePacket(s, d, end)
      PROVE  IndInv'
  <2>1. ~BlockWrite(s) /\ Write(s, d, end) /\ broken' \in [Side -> BOOLEAN]
    BY <1>1, Zenon DEF WritePacket, IndInv, TypeOK
  <2> QED
    BY <2>1, WriteInv, Zenon
<1>2. ASSUME NEW s \in Side, NEW d \in Data, Error(s, d) PROVE IndInv'
  <2>1. ~BlockWrite(s) /\ Write(s, d, FALSE) /\ broken' \in [Side -> BOOLEAN]
    BY <1>2, Zenon DEF Error, IndInv, TypeOK
  <2>2. d \in Body
    BY Zenon DEF Body
  <2> QED
    BY <2>1, <2>2, WriteInv, Zenon
<1>3. ASSUME NEW s \in Side, CloseWritesEnd(s) PROVE IndInv'
  BY <1>1, <1>3, Zenon DEF CloseWritesEnd, Body
<1>4. ASSUME NEW s \in Side, Kill(s) PROVE IndInv'
  BY <1>4, QuietInv, Zenon DEF Kill, IndInv, TypeOK
<1>5. ASSUME NEW p \in net, Lose(p) PROVE IndInv'
  BY <1>5, QuietInv, Zenon DEF Lose, flagVars, IndInv, TypeOK
<1>6. CASE UNCHANGED vars
  BY <1>6, QuietInv, Zenon DEF vars, flagVars, IndInv, TypeOK
<1>7. ASSUME NEW s \in Side, Step(s) PROVE IndInv'
  <2>1. CASE \E d \in Data, end \in BOOLEAN : WritePacket(s, d, end)
    BY <2>1, <1>1, Zenon DEF Body
  <2>2. CASE \E d \in Data : Error(s, d)
    BY <2>2, <1>2, Zenon
  <2>3. CASE ResendLastPacket(s)
    BY <2>3, ResendLastPacketInv, Zenon
  <2>4. CASE DeliverResend(s)
    BY <2>4, DeliverResendInv, Zenon
  <2>5. CASE ReadPacket(s)
    BY <2>5, ReadPacketInv
  <2>6. CASE \E p \in net : ReceivedPacket(s, p)
    BY <2>6, ReceivedPacketInv, Zenon
  <2>7. CASE AutoDeliverAck(s)
    BY <2>7, AutoDeliverAckInv
  <2>8. CASE CloseWritesEnd(s)
    BY <2>8, <1>3, Zenon
  <2>9. CASE CloseReturns(s)
    BY <2>9, CloseReturnsInv
  <2>10. CASE Kill(s)
    BY <2>10, <1>4, Zenon
  <2> QED
    BY <2>1, <2>2, <2>3, <2>4, <2>5, <2>6, <2>7, <2>8, <2>9, <2>10, <1>7, Zenon
       DEF Step
<1> QED
  BY <1>5, <1>6, <1>7, Zenon DEF Next

\* The inductive invariant holds in every reachable state.
THEOREM Invariance == Spec => []IndInv
<1>1. Init => IndInv
  BY InitInv, Zenon
<1>2. IndInv /\ [Next]_vars => IndInv'
  BY NextInv, Zenon
<1> QED
  BY <1>1, <1>2, PTL DEF Spec

-----------------------------------------------------------------------------
(* What follows from it.                                                   *)

\* Every variable keeps its type.
THEOREM TypeCorrect == Spec => []TypeOK
<1>1. IndInv => TypeOK
  BY Zenon DEF IndInv
<1> QED
  BY <1>1, Invariance, PTL

\* Packets are read in the order in which they were written, once each.
THEOREM DeliveredInOrder == Spec => []InOrder
<1>1. IndInv => InOrder
  <2> SUFFICES ASSUME IndInv, NEW s \in Side
               PROVE  /\ Len(readLog[s]) <= Len(written[Peer(s)])
                      /\ \A i \in 1..Len(readLog[s]) : readLog[s][i] = written[Peer(s)][i]
    BY Zenon DEF InOrder
  <2>1. Peer(s) \in Side /\ Peer(Peer(s)) = s
    BY PeerFacts, Zenon
  <2>2. SideOK(s) /\ SideOK(Peer(s))
    BY <2>1, Zenon DEF IndInv
  <2> QED
    BY <2>1, <2>2, Zenon DEF SideOK, CountersAt, WindowAt, InOrderAt
<1> QED
  BY <1>1, Invariance, PTL

\* An acked packet was read by the peer's application.
THEOREM AckMeansRead == Spec => []AckedIsRead
<1>1. IndInv => AckedIsRead
  BY Zenon DEF IndInv, SideOK, WindowAt, AckedIsRead
<1> QED
  BY <1>1, Invariance, PTL

\* A packet that was not read yet can still be resent.
THEOREM Retention == Spec => []UnreadIsRetained
<1>1. IndInv => UnreadIsRetained
  <2> SUFFICES ASSUME IndInv, NEW s \in Side, NEW n \in iSeq[Peer(s)] + 1 .. oSeq[s]
               PROVE  n \in DOMAIN writeBuffer[s]
    BY Zenon DEF UnreadIsRetained
  <2>1. /\ Peer(s) \in Side /\ SideOK(s) /\ TypeOK
    BY PeerFacts, Zenon DEF IndInv
  <2>2. /\ iSeq[Peer(s)] \in Nat /\ oSeq[s] \in Nat /\ oAckedSeq[s] \in Nat
        /\ oAckedSeq[s] <= iSeq[Peer(s)]
        /\ DOMAIN writeBuffer[s] = oAckedSeq[s] + 1 .. oSeq[s]
    BY <2>1, Zenon DEF TypeOK, SideOK, WindowAt, WriteBufferAt
  <2> QED
    BY <2>2
<1> QED
  BY <1>1, Invariance, PTL

\* buildMissList does not wrap: nothing beyond the window is asked for.
THEOREM MissListsFit == Spec => []MissWithinWindow
<1>1. IndInv => MissWithinWindow
  BY Zenon DEF IndInv, PacketOK, MissWithinWindow
<1> QED
  BY <1>1, Invariance, PTL

\* Sequences of one length with the same elements are equal.
LEMMA SameElements ==
  ASSUME NEW S, NEW s \in Seq(S), NEW t \in Seq(S), Len(s) = Len(t),
         \A i \in 1..Len(s) : s[i] = t[i]
  PROVE  s = t
<1>1. s \in [1..Len(s) -> S] /\ t \in [1..Len(t) -> S]
  BY SMT
<1> QED BY <1>1, SMT

\* A side that read everything holds its peer's stream.
LEMMA ReadAll ==
  ASSUME IndInv, NEW s \in Side, iSeq[s] = oSeq[Peer(s)]
  PROVE  readLog[s] = written[Peer(s)]
<1>1. Peer(s) \in Side
  BY PeerFacts, Zenon
<1>2. /\ readLog[s] \in Seq(Content) /\ written[Peer(s)] \in Seq(Content)
      /\ Len(readLog[s]) = iSeq[s] /\ Len(written[Peer(s)]) = oSeq[Peer(s)]
      /\ \A i \in 1..iSeq[s] : readLog[s][i] = written[Peer(s)][i]
  BY <1>1, Zenon DEF IndInv, TypeOK, SideOK, CountersAt, InOrderAt
<1> QED
  BY <1>2, SameElements, Zenon

\* EOF is reported only after everything the peer wrote was read.
THEOREM EofMeansComplete == Spec => []EofIsComplete
<1>1. IndInv => EofIsComplete
  BY ReadAll, Zenon DEF IndInv, SideOK, EndAt, EofIsComplete
<1> QED
  BY <1>1, Invariance, PTL

\* A side on which Close returned: its peer read its stream to the end.
LEMMA ClosedFacts ==
  ASSUME IndInv, NEW s \in Side, deliveredEnd[s], oAckedSeq[s] = oSeq[s]
  PROVE  readEnd[Peer(s)] /\ readLog[Peer(s)] = written[s]
<1>1. Peer(s) \in Side /\ Peer(Peer(s)) = s
  BY PeerFacts, Zenon
<1>2. /\ oAckedSeq[s] <= iSeq[Peer(s)] /\ iSeq[Peer(s)] <= oSeq[s]
      /\ oSeq[s] \in Nat /\ iSeq[Peer(s)] \in Nat
      /\ oSeq[s] > 0 /\ written[s][oSeq[s]].end
      /\ EndAt(Peer(s))
  <2>1. TypeOK /\ WindowAt(s) /\ EndAt(s) /\ EndAt(Peer(s))
    BY <1>1, Zenon DEF IndInv, SideOK
  <2>2. oSeq[s] \in Nat /\ iSeq[Peer(s)] \in Nat
    BY <2>1, <1>1, Zenon DEF TypeOK
  <2>3. oAckedSeq[s] <= iSeq[Peer(s)] /\ iSeq[Peer(s)] <= oSeq[s]
    BY <2>1, Zenon DEF WindowAt
  <2>4. oSeq[s] > 0 /\ written[s][oSeq[s]].end
    BY <2>1, Zenon DEF EndAt
  <2> QED
    BY <2>1, <2>2, <2>3, <2>4, Zenon
<1>3. iSeq[Peer(s)] = oSeq[s]
  BY <1>2
<1>4. readEnd[Peer(s)]
  BY <1>1, <1>2, <1>3, Zenon DEF EndAt
<1>5. readLog[Peer(s)] = written[s]
  BY <1>1, <1>3, ReadAll, Zenon
<1> QED
  BY <1>4, <1>5, Zenon

\* Close returns nil only after the peer read everything up to the end packet.
THEOREM GracefulClose == Spec => []CloseIsGraceful
<1>1. IndInv => CloseIsGraceful
  BY ClosedFacts, Zenon DEF IndInv, SideOK, CloseAt, CloseIsGraceful
<1> QED
  BY <1>1, Invariance, PTL

\* A read window has at most cReadBufferSize packets (used for receivedPacket's room check).
LEMMA WindowSize ==
  ASSUME NEW a \in Nat, NEW w \in Nat
  PROVE  IsFiniteSet(a + 1 .. a + w) /\ Cardinality(a + 1 .. a + w) = w
<1> DEFINE lo == a + 1
           hi == a + w
<1>1. lo \in Int /\ hi \in Int /\ (IF lo > hi THEN 0 ELSE hi - lo + 1) = w
  OBVIOUS
<1> HIDE DEF lo, hi
<1>2. IsFiniteSet(lo .. hi) /\ Cardinality(lo .. hi) = w
  BY <1>1, FS_Interval, Zenon
<1> QED
  BY <1>2, Zenon DEF lo, hi

\* A full read buffer holds the whole window, so that no packet that is
\* neither read nor buffered is ever refused for want of room.
THEOREM RoomForTheWindow == Spec => []NeverRefusedForRoom
<1>1. IndInv => NeverRefusedForRoom
  <2> SUFFICES ASSUME IndInv, NEW q \in net, q.seq > iSeq[q.to],
                      q.seq \notin BufferedSeqs(q.to)
               PROVE  Cardinality(readBuffer[q.to]) < cReadBufferSize
    BY Zenon DEF NeverRefusedForRoom
  <2> DEFINE s == q.to
             p == Peer(s)
             B == readBuffer[s]
             W == iSeq[s] + 1 .. iSeq[s] + cReadBufferSize
             T == W \ {q.seq}
             f == [e \in B |-> e.seq]
  <2>1. /\ TypeOK /\ PacketOK(q) /\ s \in Side /\ q.seq \in Nat
        /\ p \in Side /\ Peer(p) = s
    <3>1. TypeOK /\ PacketOK(q) /\ q \in Packet
      BY Zenon DEF IndInv, TypeOK
    <3>2. s \in Side /\ q.seq \in Nat
      BY <3>1, Zenon DEF Packet
    <3> QED
      BY <3>1, <3>2, PeerFacts, Zenon
  <2>2. /\ iSeq[s] \in Nat /\ oSeq[p] \in Nat /\ cReadBufferSize \in Nat
        /\ cReadBufferSize > 1
    BY <2>1, SizeAssumption, Zenon DEF TypeOK, SizeAssumption
  <2>3. oSeq[p] <= iSeq[s] + cReadBufferSize
    BY <2>1, SeenInWindow, Zenon DEF IndInv, SideOK
  <2>4. ASSUME NEW e \in B
        PROVE  /\ e \in [seq : Nat, data : Body, end : BOOLEAN]
               /\ e.seq > iSeq[s] /\ e.seq <= oSeq[p]
               /\ e.data = written[p][e.seq].data /\ e.end = written[p][e.seq].end
               /\ e.seq # q.seq
    BY <2>1, Zenon DEF IndInv, TypeOK, SideOK, ReadBufferAt, BufferedSeqs
  <2> HIDE DEF p, B, s
  <2>5. f \in Injection(B, T)
    <3>1. ASSUME NEW e \in B PROVE e.seq \in T
      BY <2>2, <2>3, <2>4
    <3>2. f \in [B -> T]
      BY <3>1, Zenon
    <3>3. ASSUME NEW e \in B, NEW g \in B, e.seq = g.seq PROVE e = g
      BY <2>4, <3>3
    <3> QED
      BY <3>2, <3>3, Zenon DEF Injection, IsInjective
  <2>6. /\ IsFiniteSet(W) /\ Cardinality(W) = cReadBufferSize
    BY <2>2, WindowSize, Zenon
  <2>7. q.seq \in W
    BY <2>1, <2>2, <2>3 DEF PacketOK, s, p
  <2> HIDE DEF W
  <2>8. IsFiniteSet(T) /\ Cardinality(T) = cReadBufferSize - 1
    BY <2>6, <2>7, FS_RemoveElement, Zenon
  <2> HIDE DEF T, f
  <2>9. IsFiniteSet(B) /\ Cardinality(B) <= Cardinality(T)
    BY <2>5, <2>8, FS_Injection, Zenon
  <2>10. Cardinality(B) \in Nat
    BY <2>9, FS_CardinalityType, Zenon
  <2> QED
    BY <2>2, <2>8, <2>9, <2>10 DEF B, s
<1> QED
  BY <1>1, Invariance, PTL

-----------------------------------------------------------------------------
(* The refinement.                                                         *)

\* A written packet is appended to a stream that has no end packet.
LEMMA WriteStep ==
  ASSUME IndInv, NEW s \in Side, NEW d \in Body, NEW end \in BOOLEAN, Write(s, d, end)
  PROVE  Stream!StreamNext
<1>1. \A i \in 1..Len(written[s]) : ~written[s][i].end
  <2>1. ~deliveredEnd[s] /\ SideOK(s)
    BY Zenon DEF Write, IndInv
  <2> QED
    BY <2>1, Zenon DEF SideOK, EndAt, CountersAt
<1>2. /\ written' = [written EXCEPT ![s] = Append(@, [data |-> d, end |-> end])]
      /\ UNCHANGED <<readLog, closed>>
  BY Zenon DEF Write
<1>3. [data |-> d, end |-> end] \in [data : Data \cup {NoData}, end : BOOLEAN]
  BY Zenon DEF Body
<1>4. Stream!StreamWrite(s)
  BY <1>1, <1>2, <1>3, Zenon DEF Stream!StreamWrite
<1> QED
  BY <1>4, Zenon DEF Stream!StreamNext, Stream!StreamSides, Side

\* The packet taken off the read buffer is the next one of the stream.
LEMMA ReadStep ==
  ASSUME IndInv, NEW s \in Side, ReadPacket(s)
  PROVE  Stream!StreamNext
<1> DEFINE p == Peer(s)
<1>1. p \in Side /\ Stream!Opposite(s) = p /\ TypeOK /\ SideOK(s) /\ SideOK(p)
  BY PeerFacts, Zenon DEF IndInv, Peer, Stream!Opposite
<1>2. PICK e \in readBuffer[s] :
        /\ IsNext(s, e)
        /\ readLog' = [readLog EXCEPT ![s] =
                         Append(@, [data |-> e.data, end |-> e.end])]
  BY Zenon DEF ReadPacket
<1>3. UNCHANGED <<written, closed>>
  BY Zenon DEF ReadPacket
<1>4. /\ iSeq[s] \in Nat /\ oSeq[p] \in Nat /\ written[p] \in Seq(Content)
      /\ Len(readLog[s]) = iSeq[s] /\ Len(written[p]) = oSeq[p]
  BY <1>1, Zenon DEF TypeOK, SideOK, CountersAt
<1>5. /\ e \in [seq : Nat, data : Body, end : BOOLEAN] /\ e.seq = iSeq[s] + 1
      /\ e.seq <= oSeq[p]
      /\ e.data = written[p][e.seq].data /\ e.end = written[p][e.seq].end
  BY <1>1, <1>2, Zenon DEF IsNext, SideOK, ReadBufferAt, TypeOK
<1>6. written[p][e.seq] \in Content
  BY <1>4, <1>5
<1>7. [data |-> e.data, end |-> e.end] = written[p][Len(readLog[s]) + 1]
  BY <1>4, <1>5, <1>6, Zenon DEF Content
<1>8. Len(readLog[s]) < Len(written[p])
  BY <1>4, <1>5
<1>9. readLog' = [readLog EXCEPT ![s] = Append(@, written[p][Len(@) + 1])]
  BY <1>2, <1>7, Zenon
<1>10. Stream!StreamRead(s)
  BY <1>1, <1>3, <1>8, <1>9, Zenon DEF Stream!StreamRead
<1> QED
  BY <1>10, Zenon DEF Stream!StreamNext, Stream!StreamSides, Side

\* Close returns when both streams were read to their end packet.
LEMMA CloseStep ==
  ASSUME IndInv, NEW s \in Side, CloseReturns(s)
  PROVE  Stream!StreamNext
<1> DEFINE p == Peer(s)
<1>1. /\ p \in Side /\ Peer(p) = s /\ Stream!Opposite(s) = p
      /\ TypeOK /\ SideOK(s) /\ SideOK(p)
  BY PeerFacts, Zenon DEF IndInv, Peer, Stream!Opposite
<1>2. /\ deliveredEnd[s] /\ readEnd[s] /\ DOMAIN writeBuffer[s] = {}
      /\ closed' = [closed EXCEPT ![s] = TRUE] /\ UNCHANGED <<written, readLog>>
  BY Zenon DEF CloseReturns, BlockClose
<1>3. oAckedSeq[s] = oSeq[s]
  <2>1. /\ oAckedSeq[s] \in Nat /\ oSeq[s] \in Nat /\ iSeq[p] \in Nat
        /\ oAckedSeq[s] <= iSeq[p] /\ iSeq[p] <= oSeq[s]
        /\ oAckedSeq[s] + 1 .. oSeq[s] = {}
    BY <1>1, <1>2, Zenon DEF TypeOK, SideOK, WindowAt, WriteBufferAt
  <2> QED
    BY <2>1, SMTT(30)
<1>4. readLog[p] = written[s] /\ readLog[s] = written[p] /\ deliveredEnd[p]
  BY <1>1, <1>2, <1>3, ClosedFacts, ReadAll, Zenon DEF SideOK, EndAt
<1>5. ASSUME NEW t \in Side, deliveredEnd[t], SideOK(t)
      PROVE  written[t] # <<>> /\ written[t][Len(written[t])].end
  BY <1>5 DEF SideOK, CountersAt, EndAt
<1>6. Stream!ReadToEnd(written[s], readLog[p]) /\ Stream!ReadToEnd(written[p], readLog[s])
  BY <1>1, <1>2, <1>4, <1>5, Zenon DEF Stream!ReadToEnd
<1>7. Stream!StreamClose(s)
  BY <1>1, <1>2, <1>6, Zenon DEF Stream!StreamClose
<1> QED
  BY <1>7, Zenon DEF Stream!StreamNext, Stream!StreamSides, Side

\* Every step of the channel is a step of the streams, or leaves them alone.
LEMMA StepRefines == IndInv /\ [Next]_vars => [Stream!StreamNext]_(Stream!streamVars)
<1> SUFFICES ASSUME IndInv, [Next]_vars
             PROVE  Stream!StreamNext \/ UNCHANGED Stream!streamVars
  BY Zenon
<1> USE DEF Stream!streamVars
<1>1. ASSUME NEW s \in Side, Step(s)
      PROVE  Stream!StreamNext \/ UNCHANGED Stream!streamVars
  <2>1. CASE \E d \in Data, end \in BOOLEAN : WritePacket(s, d, end)
    BY <2>1, WriteStep, Zenon DEF WritePacket, Body
  <2>2. CASE \E d \in Data : Error(s, d)
    BY <2>2, WriteStep, Zenon DEF Error, Body
  <2>3. CASE CloseWritesEnd(s)
    BY <2>3, WriteStep, Zenon DEF CloseWritesEnd, WritePacket, Body
  <2>4. CASE ReadPacket(s)
    BY <2>4, ReadStep, Zenon
  <2>5. CASE CloseReturns(s)
    BY <2>5, CloseStep, Zenon
  <2>6. CASE ResendLastPacket(s)
    BY <2>6, Zenon DEF ResendLastPacket
  <2>7. CASE DeliverResend(s)
    BY <2>7, Zenon DEF DeliverResend, flagVars
  <2>8. CASE \E q \in net : ReceivedPacket(s, q)
    BY <2>8, Zenon DEF ReceivedPacket
  <2>9. CASE AutoDeliverAck(s)
    BY <2>9, Zenon DEF AutoDeliverAck, flagVars
  <2>10. CASE Kill(s)
    BY <2>10, Zenon DEF Kill
  <2> QED
    BY <1>1, <2>1, <2>2, <2>3, <2>4, <2>5, <2>6, <2>7, <2>8, <2>9, <2>10, Zenon
       DEF Step
<1>2. ASSUME NEW q \in net, Lose(q) PROVE UNCHANGED Stream!streamVars
  BY <1>2, Zenon DEF Lose, flagVars
<1>3. CASE UNCHANGED vars
  BY <1>3, Zenon DEF vars, flagVars
<1> QED
  BY <1>1, <1>2, <1>3, Zenon DEF Next

\* The channel implements the pair of streams its application sees.
THEOREM Refinement == Spec => ImplementsStream
<1>1. Init => Stream!StreamInit
  BY Zenon DEF Init, Stream!StreamInit, Stream!StreamSides, Side
<1>2. IndInv /\ [Next]_vars => [Stream!StreamNext]_(Stream!streamVars)
  BY StepRefines, Zenon
<1> QED
  BY <1>1, <1>2, Invariance, PTL DEF Spec, ImplementsStream, Stream!Spec

=============================================================================
