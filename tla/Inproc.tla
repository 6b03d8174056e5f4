------------------------------- MODULE Inproc -------------------------------
(***************************************************************************)
(* The in-process transport (transports/inproc/inproc_transport.go): a     *)
(* table of transports, each with a Go channel of packets.  A writer looks *)
(* its destination up with the lock and sends without it, so the           *)
(* destination may have closed its channel in between.                     *)
(***************************************************************************)
EXTENDS Naturals, Sequences, FiniteSets

CONSTANTS
  None,
  Writers,      \* goroutines that write, each over a transport of its own
  Cap,          \* 10: the packets a channel holds
  MaxOpen,      \* bound: transports opened
  MaxWrites     \* bound: writes of each writer

Id == 0..MaxOpen - 1

VARIABLES
  netxID, pipes,    \* the id of the next transport; the ids in the table
  c, open,          \* the channel of each transport: its packets; not yet closed
  reader,           \* the goroutine that reads each: "none", "reading", "ended"
  heard,            \* what it has read
  sending,          \* each writer: the transport it looked up, or None
  writes,           \* the number of writes of each writer
  sent              \* packets that went into each channel

vars == <<netxID, pipes, c, open, reader, heard, sending, writes, sent>>

Open ==
  /\ netxID < MaxOpen
  /\ netxID' = netxID + 1
  /\ pipes' = pipes \cup {netxID}
  /\ open' = open \cup {netxID}
  /\ reader' = [reader EXCEPT ![netxID] = "reading"]
  /\ UNCHANGED <<c, heard, sending, writes, sent>>

\* A destination that is not in the table is no error: the packet is dropped.
Lookup(w, id) ==
  /\ sending[w] = None /\ writes[w] < MaxWrites
  /\ writes' = [writes EXCEPT ![w] = @ + 1]
  /\ sending' = [sending EXCEPT ![w] = IF id \in pipes THEN id ELSE None]
  /\ UNCHANGED <<netxID, pipes, c, open, reader, heard, sent>>

\* The send: it waits while the channel is full, and is recovered from, with the packet
\* lost, when the channel is closed, also if it is waiting then.
Write(w) ==
  LET id == sending[w]
      pkt == [from |-> w, n |-> writes[w]]
  IN /\ id # None
     /\ \/ id \notin open /\ UNCHANGED <<c, sent>>
        \/ /\ id \in open /\ Len(c[id]) < Cap
           /\ c' = [c EXCEPT ![id] = Append(@, pkt)]
           /\ sent' = [sent EXCEPT ![id] = Append(@, pkt)]
     /\ sending' = [sending EXCEPT ![w] = None]
     /\ UNCHANGED <<netxID, pipes, open, reader, heard, writes>>

\* A closed channel is read to its end first.
Read(id) ==
  /\ reader[id] = "reading"
  /\ \/ /\ c[id] # <<>>
        /\ heard' = [heard EXCEPT ![id] = Append(@, Head(c[id]))]
        /\ c' = [c EXCEPT ![id] = Tail(@)]
        /\ UNCHANGED reader
     \/ /\ c[id] = <<>> /\ id \notin open
        /\ reader' = [reader EXCEPT ![id] = "ended"]
        /\ UNCHANGED <<c, heard>>
  /\ UNCHANGED <<netxID, pipes, open, sending, writes, sent>>

\* Mutant of Close: the transport leaves the table, its channel stays open.
CloseLeavesChannel(id) ==
  /\ id \in pipes
  /\ pipes' = pipes \ {id}
  /\ UNCHANGED <<netxID, c, open, reader, heard, sending, writes, sent>>

Close(id) ==
  /\ id \in pipes
  /\ pipes' = pipes \ {id}
  /\ open' = open \ {id}
  /\ UNCHANGED <<netxID, c, reader, heard, sending, writes, sent>>

-----------------------------------------------------------------------------
Init ==
  /\ netxID = 0 /\ pipes = {} /\ open = {}
  /\ c = [id \in Id |-> <<>>] /\ heard = [id \in Id |-> <<>>] /\ sent = [id \in Id |-> <<>>]
  /\ reader = [id \in Id |-> "none"]
  /\ sending = [w \in Writers |-> None] /\ writes = [w \in Writers |-> 0]

Next ==
  \/ Open
  \/ \E w \in Writers : Write(w) \/ \E id \in Id : Lookup(w, id)
  \/ \E id \in Id : Read(id) \/ Close(id)

\* Goroutines that can run do: the reader of a transport loops until its channel ends.
Fairness ==
  /\ \A w \in Writers : WF_vars(Write(w))
  /\ \A id \in Id : WF_vars(Read(id))

Spec == Init /\ [][Next]_vars /\ Fairness

-----------------------------------------------------------------------------
\* A writer that found a channel full does not wait for ever, whether the destination
\* reads on or closes, and all that went into a channel, also what raced Close, is read
\* in order before its reader ends, which it does once the transport is closed.
InprocDrains ==
  /\ \A w \in Writers : []<>(sending[w] = None)
  /\ []<>(\A id \in Id : reader[id] = "reading" => id \in pipes)
  /\ [](\A id \in Id : reader[id] = "ended" => heard[id] = sent[id])
=============================================================================
