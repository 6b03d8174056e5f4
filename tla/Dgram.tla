-------------------------------- MODULE Dgram --------------------------------
(***************************************************************************)
(* Connections over a datagram socket (transports/dgram): the table of     *)
(* connections by remote address, the goroutine that reads the socket, the *)
(* accept queue, and the callers of Dial, Accept and Close; and the queue  *)
(* of received messages that each of them has, as bridged connections have *)
(* (transports/transportsutil/half_pipe.go).                               *)
(*                                                                         *)
(* Connections are numbered as they are made.  getConnection and           *)
(* dropConnection look twice, under the read lock and under the write      *)
(* lock.  Every stretch under c.mtx of a queue is one step.                *)
(***************************************************************************)
EXTENDS Naturals, Sequences, FiniteSets, Functions

CONSTANTS
  Users,            \* goroutines that dial or accept, and close
  DgramAddrs,       \* remote addresses
  cAcceptQueue,     \* the limit of the accept queue (1024)
  MaxDgramConns,    \* bound: connections made
  HalfPipeReaders,  \* goroutines that call Read of one queue again and again
  MaxQueue          \* bound: messages in the queue

Reader == "reader"
Callers == Users \cup {Reader}

\* The reader is a goroutine of the transport's own, and there are addresses.
ASSUME DgramAssumption == Reader \notin Users /\ DgramAddrs # {} /\ cAcceptQueue \in Nat

VARIABLES
  conns,          \* the registered connection of each address; 0: none
  addrOf,         \* the address of each connection made, in order
  marked,         \* connections marked as closed
  tClosed,        \* the transport is closed
  acceptQueue,
  waiting,        \* users that sleep in Accept
  place,          \* where each caller is
  addr, have,     \* its address and connection
  looked          \* dropConnection: the connection the first look found

tableVars == <<conns, addrOf>>
acceptVars == <<tClosed, acceptQueue, waiting>>
callVars == <<place, addr, have, looked>>
dgramVars == <<tableVars, marked, acceptVars, callVars>>

Goto(g, p) == place' = [place EXCEPT ![g] = p]

-----------------------------------------------------------------------------
(* getConnection                                                           *)

\* Dial of a user; the socket's reader with the sender of a datagram.  inner.Close
\* ends the reader, but not Dial.
Lookup(g, a) ==
  /\ place[g] = "idle" /\ (g = Reader => ~tClosed)
  /\ addr' = [addr EXCEPT ![g] = a]
  /\ have' = [have EXCEPT ![g] = conns[a]]
  /\ Goto(g, IF conns[a] = 0 THEN "make" ELSE IF g = Reader THEN "push" ELSE "open")
  /\ UNCHANGED <<tableVars, marked, acceptVars, looked>>

\* Mutant of MakeConnection: the second look is left out.
MakeConnectionAnyway(g) ==
  /\ place[g] = "make" /\ Len(addrOf) < MaxDgramConns
  /\ addrOf' = Append(addrOf, addr[g])
  /\ conns' = [conns EXCEPT ![addr[g]] = Len(addrOf')]
  /\ have' = [have EXCEPT ![g] = Len(addrOf')]
  /\ Goto(g, IF g = Reader THEN "queue" ELSE "open")
  /\ UNCHANGED <<marked, acceptVars, addr, looked>>

MakeConnection(g) ==
  /\ place[g] = "make"
  /\ \/ /\ conns[addr[g]] = 0 /\ Len(addrOf) < MaxDgramConns
        /\ addrOf' = Append(addrOf, addr[g])
        /\ conns' = [conns EXCEPT ![addr[g]] = Len(addrOf')]
        /\ have' = [have EXCEPT ![g] = Len(addrOf')]
        /\ Goto(g, IF g = Reader THEN "queue" ELSE "open")
     \/ /\ conns[addr[g]] # 0
        /\ have' = [have EXCEPT ![g] = conns[addr[g]]]
        /\ Goto(g, IF g = Reader THEN "push" ELSE "open")
        /\ UNCHANGED tableVars
  /\ UNCHANGED <<marked, acceptVars, addr, looked>>

-----------------------------------------------------------------------------
(* The reader                                                              *)

\* Signal of cndAccept: the sets that sleep on.
AcceptSignalled == IF waiting = {} THEN {{}} ELSE {waiting \ {u} : u \in waiting}

QueueFull == Goto(Reader, "look") /\ UNCHANGED <<acceptQueue, waiting, have>>

\* A connection the reader made is queued, or dropped when the queue is full.
QueueConnection ==
  /\ place[Reader] = "queue"
  /\ \/ /\ Len(acceptQueue) < cAcceptQueue
        /\ acceptQueue' = Append(acceptQueue, have[Reader])
        /\ waiting' \in AcceptSignalled
        /\ Goto(Reader, "push")
        /\ UNCHANGED have
     \/ Len(acceptQueue) >= cAcceptQueue /\ QueueFull
  /\ UNCHANGED <<tableVars, marked, tClosed, addr, looked>>

Deliver ==
  /\ place[Reader] = "push"
  /\ Goto(Reader, "idle")
  /\ have' = [have EXCEPT ![Reader] = 0]
  /\ UNCHANGED <<tableVars, marked, acceptVars, addr, looked>>

-----------------------------------------------------------------------------
(* Accept                                                                  *)

\* A call of Accept, or the rest of it when the user was woken.
Accept(u) ==
  /\ place[u] \in {"idle", "accept"} /\ u \notin waiting
  /\ \/ /\ acceptQueue = <<>> /\ ~tClosed
        /\ waiting' = waiting \cup {u}
        /\ Goto(u, "accept")
        /\ UNCHANGED <<acceptQueue, addr, have>>
     \/ /\ tClosed
        /\ Goto(u, "idle")
        /\ UNCHANGED <<acceptQueue, waiting, addr, have>>
     \/ /\ acceptQueue # <<>> /\ ~tClosed
        /\ have' = [have EXCEPT ![u] = Head(acceptQueue)]
        /\ addr' = [addr EXCEPT ![u] = addrOf[Head(acceptQueue)]]
        /\ acceptQueue' = Tail(acceptQueue)
        /\ IF Len(acceptQueue) > 1 THEN waiting' \in AcceptSignalled ELSE UNCHANGED waiting
        /\ Goto(u, "open")
  /\ UNCHANGED <<tableVars, marked, tClosed, looked>>

-----------------------------------------------------------------------------
(* Close of a connection                                                   *)

CloseConnection(u) ==
  /\ place[u] = "open"
  /\ marked' = marked \cup {have[u]}
  /\ Goto(u, "look")
  /\ UNCHANGED <<tableVars, acceptVars, addr, have, looked>>

\* dropConnection, first look.
StillThere(g) ==
  /\ place[g] = "look"
  /\ looked' = [looked EXCEPT ![g] = conns[addr[g]]]
  /\ Goto(g, IF conns[addr[g]] = 0 THEN "idle" ELSE "drop")
  /\ have' = [have EXCEPT ![g] = 0]
  /\ UNCHANGED <<tableVars, marked, acceptVars, addr>>

\* dropConnection, second look: the connection that is there now is marked, whether or
\* not it is the one that was found by the first look and is removed.
Drop(g) ==
  /\ place[g] = "drop"
  /\ have' = [have EXCEPT ![g] = conns[addr[g]]]
  /\ conns' = [conns EXCEPT ![addr[g]] = IF @ = looked[g] THEN 0 ELSE @]
  /\ Goto(g, IF conns[addr[g]] = 0 THEN "idle" ELSE "mark")
  /\ looked' = [looked EXCEPT ![g] = 0]
  /\ UNCHANGED <<addrOf, marked, acceptVars, addr>>

Mark(g) ==
  /\ place[g] = "mark"
  /\ marked' = marked \cup {have[g]}
  /\ have' = [have EXCEPT ![g] = 0]
  /\ Goto(g, "idle")
  /\ UNCHANGED <<tableVars, acceptVars, addr, looked>>

\* Close of the transport; the table keeps its connections.
CloseTransport ==
  /\ ~tClosed
  /\ tClosed' = TRUE
  /\ marked' = marked \cup (Range(conns) \ {0})
  /\ waiting' = {}
  /\ UNCHANGED <<tableVars, acceptQueue, callVars>>

-----------------------------------------------------------------------------
DgramInit ==
  /\ conns = [a \in DgramAddrs |-> 0] /\ addrOf = <<>> /\ marked = {}
  /\ tClosed = FALSE /\ acceptQueue = <<>> /\ waiting = {}
  /\ place = [g \in Callers |-> "idle"]
  /\ addr = [g \in Callers |-> CHOOSE a \in DgramAddrs : TRUE]
  /\ have = [g \in Callers |-> 0] /\ looked = [g \in Callers |-> 0]

DgramNext ==
  \/ \E g \in Callers, a \in DgramAddrs : Lookup(g, a)
  \/ \E g \in Callers : MakeConnection(g) \/ StillThere(g) \/ Drop(g) \/ Mark(g)
  \/ QueueConnection \/ Deliver
  \/ \E u \in Users : Accept(u) \/ CloseConnection(u)
  \/ CloseTransport

DgramSpec == DgramInit /\ [][DgramNext]_dgramVars

-----------------------------------------------------------------------------
(* The queue of a connection                                               *)

VARIABLES
  readQueue,         \* number of messages in the queue
  pipeClosed, deadlineReached,
  deadlineTimer,     \* "off", "armed" or "fired"
  usesDeadlines,     \* whether the application ever sets a deadline
  reading,           \* readers in Read
  sleeping           \* those of them that wait for cndRead

halfPipeVars == <<readQueue, pipeClosed, deadlineReached, deadlineTimer, usesDeadlines,
                  reading, sleeping>>

\* Mutant of Signalled: nobody is woken.
NoneSignalled == {sleeping}

\* cndRead.Signal wakes one sleeper, if there is any: the sets that sleep on.
Signalled == IF sleeping = {} THEN {{}} ELSE {sleeping \ {r} : r \in sleeping}

PushMessage ==
  /\ ~pipeClosed /\ readQueue < MaxQueue
  /\ readQueue' = readQueue + 1
  /\ sleeping' \in Signalled
  /\ UNCHANGED <<pipeClosed, deadlineReached, deadlineTimer, usesDeadlines, reading>>

\* A call of Read, or the rest of it when the reader was woken.  The reader sleeps, fails, or
\* takes a message and passes the signal on if there are more.
Read(r) ==
  /\ r \notin sleeping
  /\ \/ /\ ~pipeClosed /\ ~deadlineReached /\ readQueue = 0
        /\ reading' = reading \cup {r} /\ sleeping' = sleeping \cup {r}
        /\ UNCHANGED readQueue
     \/ /\ pipeClosed \/ deadlineReached
        /\ reading' = reading \ {r}
        /\ UNCHANGED <<readQueue, sleeping>>
     \/ /\ ~pipeClosed /\ ~deadlineReached /\ readQueue > 0
        /\ readQueue' = readQueue - 1
        /\ reading' = reading \ {r}
        /\ IF readQueue > 1 THEN sleeping' \in Signalled ELSE UNCHANGED sleeping
  /\ UNCHANGED <<pipeClosed, deadlineReached, deadlineTimer, usesDeadlines>>

Close ==
  /\ pipeClosed' = TRUE
  /\ sleeping' \in Signalled
  /\ UNCHANGED <<readQueue, deadlineReached, deadlineTimer, usesDeadlines, reading>>

\* No reader is woken: one that sleeps does not notice the deadline.
SetReadDeadline(d) ==
  /\ usesDeadlines
  /\ deadlineTimer' = IF d = "future" THEN "armed"
                      ELSE IF deadlineTimer = "fired" THEN "fired" ELSE "off"
  /\ deadlineReached' = (d = "past")
  /\ UNCHANGED <<readQueue, pipeClosed, usesDeadlines, reading, sleeping>>

DeadlineFires ==
  /\ deadlineTimer = "armed"
  /\ deadlineTimer' = "fired"
  /\ UNCHANGED <<readQueue, pipeClosed, deadlineReached, usesDeadlines, reading, sleeping>>

SetDeadlineReached ==
  /\ deadlineTimer = "fired"
  /\ deadlineTimer' = "off"
  /\ deadlineReached' = TRUE
  /\ UNCHANGED <<readQueue, pipeClosed, usesDeadlines, reading, sleeping>>

HalfPipeInit ==
  /\ readQueue = 0 /\ pipeClosed = FALSE /\ deadlineReached = FALSE
  /\ deadlineTimer = "off" /\ usesDeadlines \in BOOLEAN
  /\ reading = {} /\ sleeping = {}

HalfPipeNext ==
  \/ PushMessage \/ Close \/ DeadlineFires \/ SetDeadlineReached
  \/ \E r \in HalfPipeReaders : Read(r)
  \/ \E d \in {"zero", "past", "future"} : SetReadDeadline(d)

HalfPipeSpec == HalfPipeInit /\ [][HalfPipeNext]_halfPipeVars

-----------------------------------------------------------------------------
(* Properties.                                                             *)

\* A connection that is open is the one its address leads to, so it gets its
\* datagrams, unless dropConnection has removed it and is about to mark it: two
\* callers that dial or receive at once never make two of one address.  And it is not
\* forgotten: someone holds it, or it is in the accept queue, or the reader is about to
\* queue or to drop it.
OpenIsHeard ==
  \A c \in DOMAIN addrOf \ marked :
    /\ conns[addrOf[c]] = c \/ \E g \in Callers : place[g] = "mark" /\ have[g] = c
    /\ \/ \E g \in Callers : have[g] = c \/ (place[g] = "drop" /\ looked[g] = c)
       \/ c \in Range(acceptQueue)

\* No accepter sleeps while a connection is queued, unless another one was woken and
\* is on the way to it; and none sleeps once the transport is closed.
DgramAcceptersWake ==
  waiting # {} =>
    /\ ~tClosed
    /\ acceptQueue # <<>> => \E u \in Users \ waiting : place[u] = "accept"

\* No reader sleeps while there is a message, unless another one was woken and is on
\* the way to it (PushMessage signals, Read passes the signal on).  This is for
\* connections without deadlines: a reader that times out keeps the signal.
MessagesAreRead ==
  ~usesDeadlines /\ ~pipeClosed /\ readQueue > 0 /\ sleeping # {}
    => reading \ sleeping # {}

\* A connection that is open is found by the packets of its address, no accepter sleeps on a
\* queue with connections and no reader on one with messages (dgram_transport.go, half_pipe.go).
ArrivalsAreHeard == OpenIsHeard /\ DgramAcceptersWake /\ MessagesAreRead
=============================================================================
