--------------------------- MODULE ReliableStream ---------------------------
(***************************************************************************)
(* What a reliable channel promises: two streams of packets, one per       *)
(* direction.  Channel implements this specification.                      *)
(***************************************************************************)
EXTENDS Naturals, Sequences

CONSTANTS Data, NoData

VARIABLES
  written,  \* what each side wrote
  readLog,  \* what each side read
  closed    \* the sides on which Close returned nil

streamVars == <<written, readLog, closed>>

StreamSides == {"client", "server"}

Opposite(s) == IF s = "client" THEN "server" ELSE "client"

\* Every packet of the stream was read, and its last one is the end packet.
ReadToEnd(w, r) == r = w /\ w # <<>> /\ w[Len(w)].end

StreamInit ==
  /\ written = [s \in StreamSides |-> <<>>]
  /\ readLog = [s \in StreamSides |-> <<>>]
  /\ closed = [s \in StreamSides |-> FALSE]

\* Nothing follows the end packet.
StreamWrite(s) ==
  /\ \A i \in 1..Len(written[s]) : ~written[s][i].end
  /\ \E c \in [data : Data \cup {NoData}, end : BOOLEAN] :
       written' = [written EXCEPT ![s] = Append(@, c)]
  /\ UNCHANGED <<readLog, closed>>

StreamRead(s) ==
  /\ Len(readLog[s]) < Len(written[Opposite(s)])
  /\ readLog' = [readLog EXCEPT ![s] =
                   Append(@, written[Opposite(s)][Len(@) + 1])]
  /\ UNCHANGED <<written, closed>>

StreamClose(s) ==
  /\ ReadToEnd(written[s], readLog[Opposite(s)])
  /\ ReadToEnd(written[Opposite(s)], readLog[s])
  /\ closed' = [closed EXCEPT ![s] = TRUE]
  /\ UNCHANGED <<written, readLog>>

StreamNext ==
  \E s \in StreamSides : StreamWrite(s) \/ StreamRead(s) \/ StreamClose(s)

Spec == StreamInit /\ [][StreamNext]_streamVars

=============================================================================
