---------------------------- MODULE MissListLoop ----------------------------
(***************************************************************************)
(* The loops of buildMissList, one iteration per step, over every state of *)
(* a read buffer of a small window, with sequence numbers of a small width.*)
(***************************************************************************)
EXTENDS Integers, Sequences, SequencesExt, FiniteSetsExt, MissList

CONSTANTS
  SeqModulus,  \* bound: 2^w for the width w of a seq (2^32)
  MaxRead      \* bound: the highest value of c.iSeq; a whole window fits below 2^w

VARIABLES
  iSeq, iSeenSeq, readBuffer,  \* the state of the channel; readBuffer is sorted
  seq, last, miss,             \* the locals of the function
  i,                           \* index of the entry the first loop is at
  pc

inputs == <<iSeq, iSeenSeq, readBuffer>>
vars == <<inputs, seq, last, miss, i, pc>>

Wrap(x) == x % SeqModulus

\* The channel's window: nothing beyond iSeq + cReadBufferSize was seen, and
\* what is buffered was seen.
Init ==
  /\ iSeq \in 0..MaxRead
  /\ iSeenSeq \in iSeq .. iSeq + cReadBufferSize
  /\ \E S \in SUBSET (iSeq + 1 .. iSeenSeq) : readBuffer = SetToSortSeq(S, <)
  /\ seq = Wrap(iSeq + 1)
  /\ last = iSeq
  /\ miss = <<>>
  /\ i = 1
  /\ pc = IF readBuffer = <<>> THEN "seen" ELSE "entries"

AfterEntry == IF i < Len(readBuffer) THEN "entries" ELSE "seen"

\* Mutant of AppendMiss: last is not advanced.
AppendMissFromFirst(continue) ==
  /\ miss' = Append(miss, Wrap(seq - last))
  /\ seq' = Wrap(seq + 1)
  /\ pc' = IF Len(miss') >= cReadBufferSize - 1 THEN "highest" ELSE continue
  /\ UNCHANGED <<inputs, last, i>>

\* The body of both loops.  The list is full at cReadBufferSize - 1 entries.
AppendMiss(continue) ==
  /\ miss' = Append(miss, Wrap(seq - last))
  /\ last' = seq
  /\ seq' = Wrap(seq + 1)
  /\ pc' = IF Len(miss') >= cReadBufferSize - 1 THEN "highest" ELSE continue
  /\ UNCHANGED <<inputs, i>>

SkipEntry ==
  /\ pc = "entries"
  /\ seq = readBuffer[i]
  /\ seq' = Wrap(seq + 1)
  /\ i' = i + 1
  /\ pc' = AfterEntry
  /\ UNCHANGED <<inputs, last, miss>>

EnterGap ==
  /\ pc = "entries"
  /\ seq # readBuffer[i]
  /\ pc' = "gap"
  /\ UNCHANGED <<inputs, seq, last, miss, i>>

InGap ==
  /\ pc = "gap"
  /\ seq < readBuffer[i]
  /\ AppendMiss("gap")

LeaveGap ==
  /\ pc = "gap"
  /\ seq >= readBuffer[i]
  /\ i' = i + 1
  /\ pc' = AfterEntry
  /\ UNCHANGED <<inputs, seq, last, miss>>

UpToSeen ==
  /\ pc = "seen"
  /\ seq <= iSeenSeq
  /\ AppendMiss("seen")

AllSeen ==
  /\ pc = "seen"
  /\ seq > iSeenSeq
  /\ pc' = "highest"
  /\ UNCHANGED <<inputs, seq, last, miss, i>>

AddHighestAcceptableSeq ==
  /\ pc = "highest"
  /\ miss' = IF miss # <<>>
             THEN Append(miss, Wrap(iSeq + cReadBufferSize - last))
             ELSE miss
  /\ pc' = "done"
  /\ UNCHANGED <<inputs, seq, last, i>>

Next ==
  \/ SkipEntry
  \/ EnterGap
  \/ InGap
  \/ LeaveGap
  \/ UpToSeen
  \/ AllSeen
  \/ AddHighestAcceptableSeq

Spec == Init /\ [][Next]_vars

-----------------------------------------------------------------------------
\* The seqs processMissingPackets of the peer reads from the list: running
\* sums of the deltas, starting at the ack.
RunningSum(k) == FoldSeq(LAMBDA d, sum : Wrap(sum + d), iSeq, SubSeq(miss, 1, k))

Requested == {RunningSum(k) : k \in 1..Len(miss)}

\* The loops build the list that the channel model uses.  Although they cut it, it asks
\* the peer for every seq that was seen past and is not buffered; and "c.iSeq +
\* cReadBufferSize must be the last seq in the miss list" (channel.go:822), to which
\* the unsigned subtraction must not wrap.
LoopsBuildTheList ==
  pc = "done" =>
    /\ {n - iSeq : n \in Requested}
         = BuildMissList(iSeq, iSeenSeq, ToSet(readBuffer))
    /\ (iSeq + 1 .. iSeenSeq) \ ToSet(readBuffer) \subseteq Requested
    /\ miss # <<>> => RunningSum(Len(miss)) = iSeq + cReadBufferSize
    /\ \A k \in 1..Len(miss) : miss[k] <= cReadBufferSize
=============================================================================
