---------------------------- MODULE EndpointClose ----------------------------
(***************************************************************************)
(* Endpoint.Close (e3x/endpoint.go) beside the endpoint's accept loop and  *)
(* the transport between them, which joins several transports              *)
(* (transports/mux): it has one accepter goroutine for each of them, and   *)
(* the unbuffered channel cAccept that hands connections over.             *)
(*                                                                         *)
(* Close holds e.mtx while the transport closes, the transport waits for   *)
(* its accepters, an accepter waits for the accept loop to take its        *)
(* connection, and the accept loop takes e.mtx for every connection.       *)
(***************************************************************************)
EXTENDS Naturals, FiniteSets

CONSTANTS
  Subs,          \* the joined transports
  MaxArrivals    \* bound: connections that arrive

VARIABLES
  arrivals,      \* connections that arrived so far
  subClosed,     \* transports that were closed
  accepter,      \* accepter of each transport: "accept", "send" or "done"
  wg,            \* the WaitGroup
  cAcceptClosed, \* the channel is closed
  closer,        \* where Close of the endpoint is
  loop,          \* where acceptConnections is
  mtx            \* who holds e.mtx

muxVars == <<arrivals, subClosed, accepter, wg, cAcceptClosed>>

Closer == "closer"
Loop == "loop"
Nobody == "nobody"

endVars == <<closer, loop, mtx>>
vars == <<muxVars, endVars>>

-----------------------------------------------------------------------------
(* The mux transport.  Who receives from cAccept, and who calls its Close,  *)
(* follow below.                                                           *)

AccepterGoto(s, p) == accepter' = [accepter EXCEPT ![s] = p]

\* A connection arrives at s, and Accept returns it.
AcceptSub(s) ==
  /\ accepter[s] = "accept" /\ s \notin subClosed /\ arrivals < MaxArrivals
  /\ arrivals' = arrivals + 1
  /\ AccepterGoto(s, "send")
  /\ UNCHANGED <<subClosed, wg, cAcceptClosed>>

\* Mutant of AccepterReturns: it is not counted as done.
AccepterReturnsUncounted(s) ==
  /\ accepter[s] = "accept" /\ s \in subClosed
  /\ AccepterGoto(s, "done")
  /\ UNCHANGED <<arrivals, subClosed, wg, cAcceptClosed>>

\* Accept fails because s is closed, with io.EOF or with any other error that is not
\* temporary: the accepter returns.  After a temporary error it accepts again.
AccepterReturns(s) ==
  /\ accepter[s] = "accept" /\ s \in subClosed
  /\ AccepterGoto(s, "done")
  /\ wg' = wg - 1
  /\ UNCHANGED <<arrivals, subClosed, cAcceptClosed>>

\* The rendezvous on cAccept: the connection of s goes to a receiver.
HandOver(s) ==
  /\ accepter[s] = "send"
  /\ AccepterGoto(s, "accept")
  /\ UNCHANGED <<arrivals, subClosed, wg, cAcceptClosed>>

CloseSub(s) ==
  /\ s \notin subClosed
  /\ subClosed' = subClosed \cup {s}
  /\ UNCHANGED <<arrivals, accepter, wg, cAcceptClosed>>

\* Mutant of CloseAccept: Close does not wait for the accepters.
CloseAcceptAtOnce ==
  /\ subClosed = Subs
  /\ cAcceptClosed' = TRUE
  /\ UNCHANGED <<arrivals, subClosed, accepter, wg>>

\* Every transport is closed and every accepter has returned.
CloseAccept ==
  /\ subClosed = Subs /\ wg = 0
  /\ cAcceptClosed' = TRUE
  /\ UNCHANGED <<arrivals, subClosed, accepter, wg>>

MuxInit ==
  /\ arrivals = 0 /\ subClosed = {}
  /\ accepter = [s \in Subs |-> "accept"] /\ wg = Cardinality(Subs)
  /\ cAcceptClosed = FALSE

-----------------------------------------------------------------------------
(* Close.  Its first Lock is undone at once.                               *)

\* The exchanges are broken and the modules stopped without the lock.
StopModules ==
  /\ closer = "called"
  /\ closer' = "stopped"
  /\ UNCHANGED <<muxVars, loop, mtx>>

\* A module fails to stop: Close returns the error, with the transport open.
StopFails ==
  /\ closer = "called"
  /\ closer' = "failed"
  /\ UNCHANGED <<muxVars, loop, mtx>>

CallClose ==
  /\ closer = "open"
  /\ closer' = "called"
  /\ UNCHANGED <<muxVars, loop, mtx>>

LockToClose ==
  /\ closer = "stopped" /\ mtx = Nobody
  /\ closer' = "closing" /\ mtx' = Closer
  /\ UNCHANGED <<muxVars, loop>>

CloseTransports ==
  /\ closer = "closing"
  /\ \E s \in Subs : CloseSub(s)
  /\ UNCHANGED endVars

TransportClosed ==
  /\ closer = "closing"
  /\ CloseAccept
  /\ closer' = "closed" /\ mtx' = Nobody
  /\ UNCHANGED loop

-----------------------------------------------------------------------------
(* acceptConnections and accept                                            *)

Accept(s) ==
  /\ loop = "accept"
  /\ HandOver(s)
  /\ loop' = "read"
  /\ UNCHANGED <<closer, mtx>>

AcceptEOF ==
  /\ loop = "accept" /\ cAcceptClosed
  /\ loop' = "returned"
  /\ UNCHANGED <<muxVars, closer, mtx>>

\* conn.Read: the first message, which goes on to the tokens, or an error.
ReadFirst ==
  /\ loop = "read"
  /\ loop' \in {"lock", "accept"}
  /\ UNCHANGED <<muxVars, closer, mtx>>

LockToAccept ==
  /\ loop = "lock" /\ mtx = Nobody
  /\ loop' = "locked" /\ mtx' = Loop
  /\ UNCHANGED <<muxVars, closer>>

\* The lookup of the token is done: the message goes to an exchange or is dropped, or
\* it is a handshake for which accept takes the lock a second time.
Locked ==
  /\ loop = "locked"
  /\ loop' \in {"accept", "lock again"} /\ mtx' = Nobody
  /\ UNCHANGED <<muxVars, closer>>

LockAgain ==
  /\ loop = "lock again" /\ mtx = Nobody
  /\ loop' = "locked again" /\ mtx' = Loop
  /\ UNCHANGED <<muxVars, closer>>

LockedAgain ==
  /\ loop = "locked again"
  /\ loop' = "accept" /\ mtx' = Nobody
  /\ UNCHANGED <<muxVars, closer>>

-----------------------------------------------------------------------------
Init ==
  /\ MuxInit
  /\ closer = "open" /\ loop = "accept" /\ mtx = Nobody

CloseStep == StopModules \/ StopFails \/ LockToClose \/ CloseTransports \/ TransportClosed
LoopLocks == LockToAccept \/ Locked \/ LockAgain \/ LockedAgain
LoopStep == (\E s \in Subs : Accept(s)) \/ AcceptEOF \/ ReadFirst \/ LoopLocks

Next ==
  \/ \E s \in Subs : (AcceptSub(s) \/ AccepterReturns(s)) /\ UNCHANGED endVars
  \/ CallClose \/ CloseStep \/ LoopStep

\* Goroutines run, and sync.Mutex is not held back for ever.  Nothing makes a silent
\* peer send its first message, so ReadFirst is not fair.
Fairness ==
  /\ WF_vars(CloseStep) /\ SF_vars(LockToClose)
  /\ \A s \in Subs : WF_vars(AccepterReturns(s) /\ UNCHANGED endVars)
  /\ WF_vars(AcceptEOF) /\ SF_vars(\E s \in Subs : Accept(s))
  /\ WF_vars(LoopLocks)

Spec == Init /\ [][Next]_vars /\ Fairness

-----------------------------------------------------------------------------
(* Properties.                                                             *)

\* Nobody sends on cAccept once it is closed, which would end the program, and so
\* every connection that a transport accepted is handed over before Accept says EOF:
\* Close waits for the accepters.
NoSendOnClosed == cAcceptClosed => \A s \in Subs : accepter[s] = "done"

\* Close waits for the accept loop and the accept loop waits for Close, or for the
\* first message of a connection, while an accepter holds another connection.
MutualWait ==
  /\ closer = "closing" /\ loop \in {"lock", "lock again", "read"}
  /\ \E s \in Subs : accepter[s] = "send"

\* Close returns, unless the two wait for each other: that is the only way in which
\* Close hangs.
EndpointCloseReturns ==
  closer = "called" ~> (closer \in {"failed", "closed"} \/ []MutualWait)
=============================================================================
