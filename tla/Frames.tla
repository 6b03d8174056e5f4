-------------------------------- MODULE Frames --------------------------------
(***************************************************************************)
(* A connection of the TCP transport (transports/tcp; the UNIX transport   *)
(* has the same code): messages framed by their length in two bytes on a   *)
(* stream of bytes.                                                        *)
(*                                                                         *)
(* A byte is a number below Base, so a length takes two digits.  A write   *)
(* may put any part of what it is given on the stream, and a read may      *)
(* return any part of what is there.                                       *)
(***************************************************************************)
EXTENDS Naturals, Sequences

CONSTANTS
  Base,        \* values of a byte
  MaxLen,      \* the longest message that Write takes (1472)
  BufLen,      \* length of the reader's buffer (1500)
  Messages,    \* sequences of bytes to be written
  Writers,     \* goroutines that write
  Readers,     \* goroutines that read
  Timeouts,    \* a write deadline may be set on the connection
  MaxMessages  \* bound: calls of Write

VARIABLES
  stream,      \* bytes on their way
  broken,      \* the connection has failed, for both sides
  mtxWrite, mtxRead,  \* who holds them, or Nobody
  writer,      \* of each writer: what it has still to write
  reader,      \* of each reader: what it has read of its frame
  calls,
  written,     \* messages in the order in which they were put on the stream
  read         \* messages in the order in which Read returned them

vars == <<stream, broken, mtxWrite, mtxRead, writer, reader, calls, written, read>>
wVars == <<mtxWrite, writer, calls, written>>
rVars == <<mtxRead, reader, read>>

Nobody == "nobody"
Idle == [at |-> "idle"]

\* binary.BigEndian.PutUint16 and Uint16.
Header(n) == <<n \div Base, n % Base>>
Length(hdr) == hdr[1] * Base + hdr[2]

-----------------------------------------------------------------------------
(* Write                                                                   *)

\* A message that is too long is refused before anything is locked.
Write(w, m) ==
  /\ writer[w] = Idle /\ calls < MaxMessages /\ Len(m) <= MaxLen
  /\ calls' = calls + 1
  /\ writer' = [writer EXCEPT ![w] = [at |-> "lock", msg |-> m]]
  /\ UNCHANGED <<stream, broken, mtxWrite, written, rVars>>

\* Mutant of LockWrite: the mutex does not keep others out.
NoLockWrite(w) ==
  /\ writer[w].at = "lock"
  /\ written' = Append(written, writer[w].msg)
  /\ writer' = [writer EXCEPT ![w] = [at |-> "write", left |-> Header(Len(@.msg)) \o @.msg]]
  /\ UNCHANGED <<stream, broken, mtxWrite, calls, rVars>>

LockWrite(w) ==
  /\ writer[w].at = "lock" /\ mtxWrite = Nobody
  /\ mtxWrite' = w
  /\ written' = Append(written, writer[w].msg)
  /\ writer' = [writer EXCEPT ![w] = [at |-> "write", left |-> Header(Len(@.msg)) \o @.msg]]
  /\ UNCHANGED <<stream, broken, calls, rVars>>

\* conn.Write, in the loops over the header and over the body.
WriteSome(w) ==
  /\ writer[w].at = "write" /\ ~broken
  /\ LET left == writer[w].left
     IN /\ left # <<>>
        /\ \E n \in 1..Len(left) :
             /\ stream' = stream \o SubSeq(left, 1, n)
             /\ writer' = [writer EXCEPT ![w].left = SubSeq(left, n + 1, Len(left))]
  /\ UNCHANGED <<broken, mtxWrite, calls, written, rVars>>

Unlock(w) == writer' = [writer EXCEPT ![w] = Idle] /\ mtxWrite' = Nobody

WriteReturns(w) ==
  /\ writer[w].at = "write" /\ writer[w].left = <<>>
  /\ Unlock(w)
  /\ UNCHANGED <<stream, broken, calls, written, rVars>>

\* An error ends the call where it is: the connection is broken, or a deadline has
\* passed, which says nothing of the next write.
WriteFails(w) ==
  /\ writer[w].at = "write" /\ writer[w].left # <<>> /\ (broken \/ Timeouts)
  /\ Unlock(w)
  /\ UNCHANGED <<stream, broken, calls, written, rVars>>

-----------------------------------------------------------------------------
(* Read                                                                    *)

LockRead(r) ==
  /\ reader[r] = Idle /\ mtxRead = Nobody
  /\ mtxRead' = r
  /\ reader' = [reader EXCEPT ![r] = [at |-> "read", got |-> <<>>]]
  /\ UNCHANGED <<stream, broken, wVars, read>>

\* How many bytes the frame wants: two, and what they say once they are there.
Wants(got) == IF Len(got) < 2 THEN 2 ELSE 2 + Length(got)

\* io.ReadFull takes what there is; b[:msgLen] is within the buffer.
ReadSome(r) ==
  /\ reader[r].at = "read" /\ stream # <<>>
  /\ LET got   == reader[r].got
         lacks == Wants(got) - Len(got)
     IN /\ lacks > 0 /\ Wants(got) - 2 <= BufLen
        /\ \E n \in 1..(IF Len(stream) < lacks THEN Len(stream) ELSE lacks) :
             /\ reader' = [reader EXCEPT ![r].got = got \o SubSeq(stream, 1, n)]
             /\ stream' = SubSeq(stream, n + 1, Len(stream))
  /\ UNCHANGED <<broken, mtxRead, read, wVars>>

ReadReturns(r) ==
  /\ reader[r].at = "read"
  /\ LET got == reader[r].got
     IN /\ Len(got) = Wants(got) /\ Len(got) >= 2
        /\ read' = Append(read, SubSeq(got, 3, Len(got)))
  /\ reader' = [reader EXCEPT ![r] = Idle] /\ mtxRead' = Nobody
  /\ UNCHANGED <<stream, broken, wVars>>

\* The peer has gone, and what it sent is used up.
ReadFails(r) ==
  /\ reader[r].at = "read" /\ broken /\ stream = <<>>
  /\ Len(reader[r].got) < Wants(reader[r].got)
  /\ reader' = [reader EXCEPT ![r] = Idle] /\ mtxRead' = Nobody
  /\ UNCHANGED <<stream, broken, read, wVars>>

Break ==
  /\ ~broken /\ broken' = TRUE
  /\ UNCHANGED <<stream, wVars, rVars>>

-----------------------------------------------------------------------------

Init ==
  /\ stream = <<>> /\ broken = FALSE /\ calls = 0 /\ written = <<>> /\ read = <<>>
  /\ mtxWrite = Nobody /\ mtxRead = Nobody
  /\ writer = [w \in Writers |-> Idle] /\ reader = [r \in Readers |-> Idle]

Next ==
  \/ \E w \in Writers : \/ \E m \in Messages : Write(w, m)
                        \/ LockWrite(w) \/ WriteSome(w) \/ WriteReturns(w) \/ WriteFails(w)
  \/ \E r \in Readers : LockRead(r) \/ ReadSome(r) \/ ReadReturns(r) \/ ReadFails(r)
  \/ Break

Spec == Init /\ [][Next]_vars

-----------------------------------------------------------------------------
(* Properties.                                                             *)

\* Every message that Read returns is a message as it was written, in the order of
\* the writes, with writers and readers that run side by side, whatever part of it a
\* call of the socket takes, and also when the connection breaks (Write, Read).
FramesArriveWhole ==
  /\ Len(read) <= Len(written)
  /\ \A i \in 1..Len(read) : read[i] = written[i]
=============================================================================
