-------------------------------- MODULE Pipe --------------------------------
(***************************************************************************)
(* A pipe of an exchange (e3x/exchange_pipe.go): the connection it dials   *)
(* when it first writes, the goroutine that reads it, and Close.           *)
(*                                                                         *)
(* A stretch under p.mtx is one step.  Connections are numbered as they    *)
(* are made.  dial starts the reader after it has released p.mtx, and      *)
(* reads p.conn again to do so.                                            *)
(***************************************************************************)
EXTENDS Naturals, FiniteSets

CONSTANTS
  PipeWriters,   \* goroutines that call Write again and again
  PipeClosers,   \* goroutines that call Close
  MaxConns       \* bound: connections made

Conns == 1..MaxConns

VARIABLES
  conn, closed,      \* p.conn (0: nil) and p.closed
  made,              \* connections made so far
  shut,              \* connections that were closed
  failed,            \* connections whose Read fails
  reader,            \* the connections that a goroutine reads
  crashed,           \* a goroutine reads from a nil connection
  place, got            \* each caller: its place, the connection it holds

connVars == <<conn, closed, made>>
pipeVars == <<connVars, shut, failed, reader, crashed, place, got>>

Usable == (1..made) \ (shut \cup failed)

-----------------------------------------------------------------------------
(* Write                                                                   *)

\* The first look, under the read lock.
Write(w) ==
  /\ place[w] = "idle" /\ ~closed
  /\ got' = [got EXCEPT ![w] = conn]
  /\ place' = [place EXCEPT ![w] = IF conn # 0 THEN "write" ELSE "dial"]
  /\ UNCHANGED <<connVars, shut, failed, reader, crashed>>

\* Mutant of dial: the second look is left out.
DialAnyway(w) ==
  /\ place[w] = "dial" /\ made < MaxConns
  /\ made' = made + 1 /\ conn' = made + 1
  /\ got' = [got EXCEPT ![w] = made + 1]
  /\ place' = [place EXCEPT ![w] = "start"]
  /\ UNCHANGED <<closed, shut, failed, reader, crashed>>

\* The second look, under the write lock, which is held while the transport dials.
dial(w) ==
  /\ place[w] = "dial"
  /\ \/ /\ closed
        /\ place' = [place EXCEPT ![w] = "idle"]
        /\ UNCHANGED <<conn, made, got>>
     \/ /\ ~closed /\ conn # 0
        /\ got' = [got EXCEPT ![w] = conn]
        /\ place' = [place EXCEPT ![w] = "write"]
        /\ UNCHANGED <<conn, made>>
     \/ /\ ~closed /\ conn = 0 /\ made < MaxConns
        /\ made' = made + 1 /\ conn' = made + 1
        /\ got' = [got EXCEPT ![w] = made + 1]
        /\ place' = [place EXCEPT ![w] = "start"]
     \/ /\ ~closed /\ conn = 0   \* the transport cannot dial
        /\ place' = [place EXCEPT ![w] = "idle"]
        /\ UNCHANGED <<conn, made, got>>
  /\ UNCHANGED <<closed, shut, failed, reader, crashed>>

\* p.wg.Add(1); go p.reader(p.conn)
StartReader(w) ==
  /\ place[w] = "start"
  /\ place' = [place EXCEPT ![w] = "write"]
  /\ reader' = reader \cup ({conn} \ {0})
  /\ crashed' = (crashed \/ conn = 0)
  /\ UNCHANGED <<connVars, shut, failed, got>>

WriteConn(w) ==
  /\ place[w] = "write"
  /\ place' = [place EXCEPT ![w] = "idle"]
  /\ got' = [got EXCEPT ![w] = 0]
  /\ UNCHANGED <<connVars, shut, failed, reader, crashed>>

-----------------------------------------------------------------------------
(* The reader                                                              *)

\* The peer, or the network, ends a connection.
Fail(c) ==
  /\ c \in Usable
  /\ failed' = failed \cup {c}
  /\ UNCHANGED <<connVars, shut, reader, crashed, place, got>>

\* Read has failed: the pipe forgets the connection, if it still has it.
ReaderReturns(c) ==
  /\ c \in reader \cap (shut \cup failed)
  /\ conn' = IF conn = c THEN 0 ELSE conn
  /\ reader' = reader \ {c}
  /\ UNCHANGED <<closed, made, shut, failed, crashed, place, got>>

-----------------------------------------------------------------------------
(* Close                                                                   *)

CloseCall(k) ==
  /\ place[k] = "open"
  /\ place' = [place EXCEPT ![k] = IF closed THEN "refused" ELSE "mark"]
  /\ UNCHANGED <<connVars, shut, failed, reader, crashed, got>>

CloseMarks(k) ==
  /\ place[k] = "mark"
  /\ closed' = TRUE /\ conn' = 0
  /\ got' = [got EXCEPT ![k] = conn]
  /\ place' = [place EXCEPT ![k] = "shut"]
  /\ UNCHANGED <<made, shut, failed, reader, crashed>>

\* Mutant of CloseConn: the connection is not closed.
CloseForgetsConn(k) ==
  /\ place[k] = "shut"
  /\ place' = [place EXCEPT ![k] = "wait"]
  /\ UNCHANGED <<connVars, shut, failed, reader, crashed, got>>

CloseConn(k) ==
  /\ place[k] = "shut"
  /\ shut' = shut \cup ({got[k]} \ {0})
  /\ place' = [place EXCEPT ![k] = "wait"]
  /\ UNCHANGED <<connVars, failed, reader, crashed, got>>

\* p.wg.Wait()
CloseReturns(k) ==
  /\ place[k] = "wait" /\ reader = {}
  /\ place' = [place EXCEPT ![k] = "returned"]
  /\ UNCHANGED <<connVars, shut, failed, reader, crashed, got>>

-----------------------------------------------------------------------------
PipeInit ==
  /\ closed = FALSE /\ made \in {0, 1} /\ conn = made
  /\ shut = {} /\ failed = {} /\ crashed = FALSE
  /\ reader = {conn} \ {0}   \* newPipe reads the connection it was given
  /\ place = [g \in PipeWriters \cup PipeClosers |->
             IF g \in PipeWriters THEN "idle" ELSE "open"]
  /\ got = [g \in PipeWriters \cup PipeClosers |-> 0]

PipeCloseStep(k) == CloseMarks(k) \/ CloseConn(k) \/ CloseReturns(k)

PipeNext ==
  \/ \E w \in PipeWriters : Write(w) \/ dial(w) \/ StartReader(w) \/ WriteConn(w)
  \/ \E c \in Conns : Fail(c) \/ ReaderReturns(c)
  \/ \E k \in PipeClosers : CloseCall(k) \/ PipeCloseStep(k)

PipeSpec == PipeInit /\ [][PipeNext]_pipeVars

\* Goroutines run, and Read on a connection that is closed or has failed returns.
PipeFairness ==
  /\ \A k \in PipeClosers : WF_pipeVars(PipeCloseStep(k))
  /\ \A c \in Conns : WF_pipeVars(ReaderReturns(c))

-----------------------------------------------------------------------------
(* Properties.                                                             *)

\* A connection that works is not left behind: it is the pipe's own, and read, or about
\* to be, so that someone notices when it fails; or it is the one that Close is about to
\* close (the second look of dial, under the write lock; the reader's clean-up).
WorkingIsRead ==
  /\ \A c \in Usable : c = conn \/ \E k \in PipeClosers : place[k] = "shut" /\ got[k] = c
  /\ conn # 0 => conn \in reader \/ \E w \in PipeWriters : place[w] = "start" /\ got[w] = conn

\* Close returns: closing the connection ends its reader.  (Each closer calls it once.)
PipeCloseReturns == []<>(\A k \in PipeClosers : place[k] \in {"open", "returned", "refused"})
=============================================================================
