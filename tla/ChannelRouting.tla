--------------------------- MODULE ChannelRouting ---------------------------
(***************************************************************************)
(* How an exchange finds or makes the channel of a packet, and hands a new *)
(* one to a listener (e3x/exchange.go 469-537, channel_set.go,             *)
(* listener.go).  Several pipe readers do it at once.                      *)
(*                                                                         *)
(* channelSet.GetOrAdd returns a promise with set.mtx still locked: the    *)
(* lock is part of the state.  Channels are numbered as they are made; id  *)
(* is the number on the wire, which a late duplicate may use again.        *)
(***************************************************************************)
EXTENDS Naturals, Sequences, FiniteSets, Functions

CONSTANTS
  Readers,         \* goroutines that read the pipes
  Accepters,       \* goroutines in AcceptChannel, called again and again
  Ids,             \* channel ids the peer uses
  maxBacklogSize,
  MaxChannels      \* bound: channels made

\* A reader is not the word for a free lock.
ASSUME RoutingAssumption == "free" \notin Readers

VARIABLES
  setMtx,      \* the reader that holds the promise, or "free"
  channels,    \* x.channels: the channel of each id, or 0
  idOf,        \* the id of each channel made so far, in order
  fate,        \* of each: "new", "queued", "accepted", "killed", "closed"
  dying,       \* channels whose closed hook is to run
  pc, packet, mine,   \* each reader: its place, its packet, its channel
  listening,   \* the listener is in the listener set
  closed, queue, backlogSize,  \* the listener
  asleep, awake   \* accepters that wait; accepters that run

setVars == <<setMtx, channels, idOf>>
readerVars == <<pc, packet, mine>>
listenerVars == <<listening, closed, queue, backlogSize>>
routingVars == <<setVars, fate, dying, readerVars, listenerVars, asleep, awake>>

\* A packet without a type belongs to a channel that is there; a packet with a type
\* opens one, which may be of another reliability than the listener's.
Packets == [id : Ids, kind : {"plain", "typed", "misfit"}]
NoPacket == [id |-> "none", kind |-> "plain"]

Made == 1..Len(idOf)
Busy == {r \in Readers : pc[r] # "idle"}

-----------------------------------------------------------------------------
(* receivedPacket, from the channel id on.                                 *)

Receive(r, p) ==
  /\ pc[r] = "idle"
  /\ p.kind = "plain" \/ Len(idOf) + Cardinality(Busy) < MaxChannels
  /\ pc' = [pc EXCEPT ![r] = "get"]
  /\ packet' = [packet EXCEPT ![r] = p]
  /\ UNCHANGED <<setVars, fate, dying, mine, listenerVars, asleep, awake>>

\* Mutant of Get: the second look, with the write lock, is left out.
GetLooksOnce(r) ==
  LET c == channels[packet[r].id]
  IN /\ pc[r] \in {"get", "getOrAdd"} /\ setMtx = "free"
     /\ mine' = [mine EXCEPT ![r] = c]
     /\ \/ pc[r] = "get" /\ UNCHANGED setMtx
           /\ pc' = [pc EXCEPT ![r] = IF c # 0 THEN "deliver" ELSE "getOrAdd"]
        \/ pc[r] = "getOrAdd" /\ pc' = [pc EXCEPT ![r] = "promise"] /\ setMtx' = r
     /\ UNCHANGED <<channels, idOf, fate, dying, packet, listenerVars, asleep, awake>>

\* GetOrAdd looks twice: with the read lock, then with the write lock, which it
\* keeps if there is no channel.
Get(r) ==
  LET c == channels[packet[r].id]
  IN /\ pc[r] \in {"get", "getOrAdd"} /\ setMtx = "free"
     /\ mine' = [mine EXCEPT ![r] = c]
     /\ \/ c # 0 /\ pc' = [pc EXCEPT ![r] = "deliver"] /\ UNCHANGED setMtx
        \/ c = 0 /\ pc[r] = "get" /\ pc' = [pc EXCEPT ![r] = "getOrAdd"] /\ UNCHANGED setMtx
        \/ c = 0 /\ pc[r] = "getOrAdd" /\ pc' = [pc EXCEPT ![r] = "promise"] /\ setMtx' = r
     /\ UNCHANGED <<channels, idOf, fate, dying, packet, listenerVars, asleep, awake>>

Done(r) ==
  /\ pc' = [pc EXCEPT ![r] = "idle"]
  /\ packet' = [packet EXCEPT ![r] = NoPacket]
  /\ mine' = [mine EXCEPT ![r] = 0]

\* The promise is cancelled when nobody listens, or kept with a new channel.
Promise(r) ==
  /\ pc[r] = "promise"
  /\ setMtx' = "free"
  /\ \/ /\ packet[r].kind = "plain" \/ ~listening
        /\ Done(r)
        /\ UNCHANGED <<channels, idOf, fate>>
     \/ /\ packet[r].kind # "plain" /\ listening
        /\ idOf' = Append(idOf, packet[r].id)
        /\ fate' = Append(fate, "new")
        /\ channels' = [channels EXCEPT ![packet[r].id] = Len(idOf) + 1]
        /\ mine' = [mine EXCEPT ![r] = Len(idOf) + 1]
        /\ pc' = [pc EXCEPT ![r] = "handle"]
        /\ UNCHANGED packet
  /\ UNCHANGED <<dying, listenerVars, asleep, awake>>

\* Mutant of Signalled: nobody is woken.
NobodySignalled == {{}}

Signalled == IF asleep = {} THEN {{}} ELSE {{a} : a \in asleep}

HasBacklog == backlogSize < maxBacklogSize

\* Listener.handle: the channel is queued, or killed; its hook unregisters it.
Handle(r) ==
  LET c == mine[r]
  IN /\ pc[r] = "handle"
     /\ pc' = [pc EXCEPT ![r] = "deliver"]
     /\ \/ /\ closed \/ ~HasBacklog \/ packet[r].kind = "misfit"
           /\ fate' = [fate EXCEPT ![c] = "killed"]
           /\ dying' = dying \cup {c}
           /\ UNCHANGED <<queue, backlogSize, asleep, awake>>
        \/ /\ ~closed /\ HasBacklog /\ packet[r].kind = "typed"
           /\ queue' = Append(queue, c)
           /\ backlogSize' = backlogSize + 1
           /\ fate' = [fate EXCEPT ![c] = "queued"]
           /\ \E w \in Signalled : asleep' = asleep \ w /\ awake' = awake \cup w
           /\ UNCHANGED dying
     /\ UNCHANGED <<setVars, packet, mine, listening, closed>>

Deliver(r) ==
  /\ pc[r] = "deliver"
  /\ Done(r)
  /\ UNCHANGED <<setVars, fate, dying, listenerVars, asleep, awake>>

\* unregisterChannel: whatever channel has the id is removed.
Unregister(c) ==
  /\ c \in dying /\ setMtx = "free"
  /\ dying' = dying \ {c}
  /\ channels' = [channels EXCEPT ![idOf[c]] = 0]
  /\ UNCHANGED <<setMtx, idOf, fate, readerVars, listenerVars, asleep, awake>>

-----------------------------------------------------------------------------
(* AcceptChannel and Listener.Close.                                       *)

Accept(a) ==
  /\ a \in awake
  /\ \/ /\ ~closed /\ backlogSize = 0
        /\ asleep' = asleep \cup {a} /\ awake' = awake \ {a}
        /\ UNCHANGED <<queue, backlogSize, fate>>
     \/ /\ ~closed /\ backlogSize > 0
        /\ queue' = Tail(queue)
        /\ backlogSize' = backlogSize - 1
        /\ fate' = [fate EXCEPT ![Head(queue)] = "accepted"]
        /\ \E w \in (IF backlogSize' > 0 THEN Signalled ELSE {{}}) :
             asleep' = asleep \ w /\ awake' = awake \cup w
     \/ /\ closed
        /\ awake' = awake \ {a}
        /\ UNCHANGED <<queue, backlogSize, fate, asleep>>
  /\ UNCHANGED <<setVars, dying, readerVars, listening, closed>>

\* Mutant of ListenerClose: the queued channels are not killed.
ListenerCloseKeepsQueue ==
  /\ ~closed
  /\ closed' = TRUE
  /\ listening' = FALSE
  /\ asleep' = {} /\ awake' = awake \cup asleep
  /\ UNCHANGED <<setVars, fate, dying, readerVars, queue, backlogSize>>

\* The queued channels are killed, but stay in the queue.
ListenerClose ==
  /\ ~closed
  /\ closed' = TRUE
  /\ listening' = FALSE
  /\ fate' = [c \in Made |-> IF fate[c] = "queued" THEN "killed" ELSE fate[c]]
  /\ dying' = dying \cup Range(queue)
  /\ asleep' = {} /\ awake' = awake \cup asleep
  /\ UNCHANGED <<setVars, readerVars, queue, backlogSize>>

\* The application closes an accepted channel.
ChannelClose(c) ==
  /\ fate[c] = "accepted"
  /\ fate' = [fate EXCEPT ![c] = "closed"]
  /\ dying' = dying \cup {c}
  /\ UNCHANGED <<setVars, readerVars, listenerVars, asleep, awake>>

-----------------------------------------------------------------------------
RoutingInit ==
  /\ setMtx = "free"
  /\ channels = [id \in Ids |-> 0]
  /\ idOf = <<>>
  /\ fate = <<>>
  /\ dying = {}
  /\ pc = [r \in Readers |-> "idle"]
  /\ packet = [r \in Readers |-> NoPacket]
  /\ mine = [r \in Readers |-> 0]
  /\ listening = TRUE /\ closed = FALSE /\ queue = <<>> /\ backlogSize = 0
  /\ asleep = {} /\ awake = Accepters

RoutingNext ==
  \/ \E r \in Readers : Get(r) \/ Promise(r) \/ Handle(r) \/ Deliver(r)
  \/ \E r \in Readers, p \in Packets : Receive(r, p)
  \/ \E c \in Made : Unregister(c) \/ ChannelClose(c)
  \/ \E a \in Accepters : Accept(a)
  \/ ListenerClose

RoutingSpec == RoutingInit /\ [][RoutingNext]_routingVars

-----------------------------------------------------------------------------
(* Properties.                                                             *)

Live == {c \in Made : fate[c] \in {"new", "queued", "accepted"}}

\* Two packets that race never make two channels of one id, and a channel that is
\* alive is the one its id leads to, so it gets its packets (GetOrAdd keeps the
\* write lock from its second look to Add).
OneChannelPerId == \A c \in Live : channels[idOf[c]] = c

\* Every channel that is made ends up with the application, in the backlog of an
\* open listener, or killed: none is forgotten while it is still registered.
NoChannelForgotten ==
  \A c \in Made :
    /\ fate[c] = "new" => \E r \in Readers : pc[r] = "handle" /\ mine[r] = c
    /\ fate[c] = "queued" <=> ~closed /\ c \in Range(queue)
    /\ channels[idOf[c]] = c /\ fate[c] \in {"killed", "closed"} => c \in dying

\* No accepter sleeps while there is a channel for it and nobody else is on the way
\* to take it, or after the listener was closed.
AcceptersWake ==
  asleep # {} => ~closed /\ (backlogSize > 0 => awake # {})

\* A channel that is alive gets the packets of its id, none is forgotten on its way to the
\* application, and no accepter sleeps while a channel waits for it (channel_set.go,
\* GetOrAdd; exchange.go, receivedPacket; listener.go, AcceptChannel and Close).
ChannelsAreRouted == OneChannelPerId /\ NoChannelForgotten /\ AcceptersWake
=============================================================================
