----------------------------- MODULE TableProofs -----------------------------
(***************************************************************************)
(* Two tables: the connections of a datagram socket by their address, with *)
(* their queues, for any number of users, addresses and connections; and   *)
(* the channels of an exchange by their number, for any set of exchanges,  *)
(* any number of channels and any range of numbers.                        *)
(***************************************************************************)
EXTENDS Dgram, Opening, TLAPS

-----------------------------------------------------------------------------
(* The inductive invariant of the table of connections.                    *)

Places == {"idle", "make", "open", "push", "queue", "accept", "look", "drop", "mark"}

DgramTypeOK ==
  /\ addrOf \in Seq(DgramAddrs)
  /\ conns \in [DgramAddrs -> 0..Len(addrOf)]
  /\ acceptQueue \in Seq(Nat) /\ Range(acceptQueue) \subseteq 1..Len(addrOf)
  /\ tClosed \in BOOLEAN
  /\ waiting \subseteq Users
  /\ place \in [Callers -> Places]
  /\ addr \in [Callers -> DgramAddrs]
  /\ have \in [Callers -> 0..Len(addrOf)]
  /\ looked \in [Callers -> 0..Len(addrOf)]

\* Connections are where their address says: in the table, and in the hands of callers.
AddressesAgree ==
  /\ \A a \in DgramAddrs : conns[a] # 0 => addrOf[conns[a]] = a
  /\ \A g \in Callers : have[g] # 0 => addrOf[have[g]] = addr[g]
  /\ \A g \in Callers : place[g] = "drop" => looked[g] # 0 /\ addrOf[looked[g]] = addr[g]

\* What a caller holds at each place; a user that has begun to close has marked.
HandsAgree ==
  /\ \A g \in Callers : place[g] \in {"idle", "accept", "make", "drop"} => have[g] = 0
  /\ \A u \in Users : place[u] = "look" => have[u] \in marked
  /\ \A u \in Users : place[u] \notin {"push", "queue"}
  /\ place[Reader] \notin {"open", "accept"}
  /\ \A u \in waiting : place[u] = "accept"

\* The reader queues, and a caller drops or marks, a connection that there is.
QueuedIsHeld ==
  \A g \in Callers : place[g] \in {"queue", "open", "look", "mark"} => have[g] # 0

\* The caller g is bound to use, queue, drop or mark the connection c.  The reader that
\* only passes a message on is not.
Holds(g, c) ==
  \/ have[g] = c /\ ~(g = Reader /\ place[g] = "push")
  \/ place[g] = "drop" /\ looked[g] = c

\* OpenIsHeard, without the reader that passes a message on.
Heard(c) ==
  /\ conns[addrOf[c]] = c \/ \E g \in Callers : place[g] = "mark" /\ have[g] = c
  /\ (\E g \in Callers : Holds(g, c)) \/ c \in Range(acceptQueue)

AllHeard == \A c \in DOMAIN addrOf \ marked : Heard(c)

DgramInv ==
  /\ DgramTypeOK /\ AddressesAgree /\ HandsAgree /\ QueuedIsHeld
  /\ AllHeard /\ DgramAcceptersWake

-----------------------------------------------------------------------------
(* The members of a queue.                                                 *)

\* Append adds one member (append to acceptQueue, dgram_transport.go).
LEMMA RangeAppend ==
  ASSUME NEW S, NEW s \in Seq(S), NEW e \in S
  PROVE  Range(Append(s, e)) = Range(s) \cup {e}
<1>1. ASSUME NEW x \in Range(Append(s, e)) PROVE x \in Range(s) \cup {e}
  <2>1. PICK i \in 1..Len(s) + 1 : x = Append(s, e)[i]
    BY <1>1 DEF Range
  <2>2. CASE i = Len(s) + 1
    BY <2>1, <2>2
  <2>3. CASE i # Len(s) + 1
    BY <2>1, <2>3 DEF Range
  <2> QED BY <2>2, <2>3, Zenon
<1>2. ASSUME NEW x \in Range(s) \cup {e} PROVE x \in Range(Append(s, e))
  <2>1. CASE x = e
    <3>1. Append(s, e)[Len(s) + 1] = e /\ Len(s) + 1 \in DOMAIN Append(s, e)
      OBVIOUS
    <3> QED BY <3>1, <2>1, Zenon DEF Range
  <2>2. CASE x \in Range(s)
    <3>1. PICK i \in 1..Len(s) : x = s[i]
      BY <2>2 DEF Range
    <3>2. Append(s, e)[i] = x /\ i \in DOMAIN Append(s, e)
      BY <3>1
    <3> QED BY <3>2, Zenon DEF Range
  <2> QED BY <1>2, <2>1, <2>2, Zenon
<1> QED BY <1>1, <1>2, Zenon

\* A queue holds its head and the members of its tail (Accept takes the head).
LEMMA RangeTail ==
  ASSUME NEW S, NEW s \in Seq(S), s # <<>>
  PROVE  Range(s) = {Head(s)} \cup Range(Tail(s))
<1>1. ASSUME NEW x \in Range(s) PROVE x \in {Head(s)} \cup Range(Tail(s))
  <2>1. PICK i \in 1..Len(s) : x = s[i]
    BY <1>1 DEF Range
  <2>2. CASE i # 1
    <3>1. Tail(s)[i - 1] = x /\ i - 1 \in DOMAIN Tail(s)
      BY <2>1, <2>2
    <3> QED BY <3>1, Zenon DEF Range
  <2> QED BY <2>1, <2>2
<1>2. Head(s) \in Range(s)
  BY DEF Range
<1>3. ASSUME NEW x \in Range(Tail(s)) PROVE x \in Range(s)
  <2>1. PICK i \in 1..Len(s) - 1 : x = Tail(s)[i]
    BY <1>3 DEF Range
  <2>2. s[i + 1] = x /\ i + 1 \in DOMAIN s
    BY <2>1
  <2> QED BY <2>2, Zenon DEF Range
<1> QED BY <1>1, <1>2, <1>3, Zenon

-----------------------------------------------------------------------------
(* Every step keeps the invariant.                                         *)

\* No caller has a connection at first (Wrap, dgram_transport.go).
LEMMA DgramInitInv == DgramInit => DgramInv
<1> SUFFICES ASSUME DgramInit PROVE DgramInv
  BY Zenon
<1>1. (CHOOSE a \in DgramAddrs : TRUE) \in DgramAddrs
  BY DgramAssumption, Zenon
<1>2. Len(addrOf) = 0 /\ DOMAIN addrOf = {} /\ Range(acceptQueue) = {}
  BY DEF DgramInit, Range
<1>3. DgramTypeOK
  <2>1. addrOf \in Seq(DgramAddrs) /\ acceptQueue \in Seq(Nat) /\ tClosed \in BOOLEAN
    <3>1. addrOf = <<>> /\ acceptQueue = <<>> /\ tClosed = FALSE
      BY Zenon DEF DgramInit
    <3>2. <<>> \in Seq(DgramAddrs) /\ <<>> \in Seq(Nat)
      OBVIOUS
    <3> QED BY <3>1, <3>2, Zenon
  <2>2. Range(acceptQueue) \subseteq 1..Len(addrOf) /\ waiting \subseteq Users
    BY <1>2, Zenon DEF DgramInit
  <2>3. 0 \in 0..Len(addrOf)
    BY <1>2
  <2> QED BY <1>1, <2>1, <2>2, <2>3, Zenon DEF DgramInit, DgramTypeOK, Places
<1>4. AddressesAgree /\ HandsAgree /\ QueuedIsHeld /\ DgramAcceptersWake
  BY Zenon DEF DgramInit, AddressesAgree, HandsAgree, QueuedIsHeld, DgramAcceptersWake, Callers
<1>5. AllHeard
  BY <1>2, Zenon DEF AllHeard
<1> QED BY <1>3, <1>4, <1>5, Zenon DEF DgramInv

\* getConnection, first look.
LEMMA LookupKeeps ==
  ASSUME DgramInv, NEW g \in Callers, NEW a \in DgramAddrs, Lookup(g, a)
  PROVE  DgramInv'
<1> USE DEF Lookup, Goto, tableVars, acceptVars, DgramInv
<1>1. DgramTypeOK'
  BY Zenon DEF DgramTypeOK, Places
<1>2. AddressesAgree' /\ HandsAgree' /\ QueuedIsHeld'
  BY DgramAssumption DEF DgramTypeOK, AddressesAgree, HandsAgree, QueuedIsHeld, Callers
<1>3. AllHeard'
  <2> SUFFICES ASSUME NEW c \in DOMAIN addrOf, c \notin marked PROVE Heard(c)'
    BY Zenon DEF AllHeard
  <2>1. Heard(c) /\ c # 0 /\ have[g] = 0
    BY DEF AllHeard, DgramTypeOK, HandsAgree
  <2>2. \A f \in Callers : place[f] = "mark" /\ have[f] = c => (place[f] = "mark" /\ have[f] = c)'
    BY Zenon DEF DgramTypeOK
  <2>3. \A f \in Callers : Holds(f, c) => Holds(f, c)'
    BY <2>1, Zenon DEF DgramTypeOK, Holds
  <2> QED BY <2>1, <2>2, <2>3, Zenon DEF Heard
<1>4. DgramAcceptersWake'
  BY DgramAssumption, Zenon DEF DgramTypeOK, HandsAgree, DgramAcceptersWake, Callers
<1> QED BY <1>1, <1>2, <1>3, <1>4, Zenon

\* getConnection, second look: the table of an address leads to one connection only.
LEMMA MakeConnectionKeeps ==
  ASSUME DgramInv, NEW g \in Callers, MakeConnection(g)
  PROVE  DgramInv'
<1> USE DEF MakeConnection, Goto, tableVars, acceptVars, DgramInv
<1> DEFINE n == Len(addrOf) + 1
<1>1. CASE conns[addr[g]] # 0
  <2>1. DgramTypeOK'
    BY <1>1, Zenon DEF DgramTypeOK, Places
  <2>2. AddressesAgree' /\ HandsAgree' /\ QueuedIsHeld'
    <3>1. /\ have' = [have EXCEPT ![g] = conns[addr[g]]]
          /\ place' = [place EXCEPT ![g] = IF g = Reader THEN "push" ELSE "open"]
          /\ UNCHANGED <<tableVars, marked, acceptVars, addr, looked>>
      BY <1>1, Zenon
    <3> HIDE DEF MakeConnection
    <3>2. AddressesAgree'
      BY <1>1, <3>1, Zenon DEF DgramTypeOK, AddressesAgree
    <3>3. place[g] = "make" /\ g \notin waiting /\ (g # Reader => g \in Users)
      BY Zenon DEF HandsAgree, MakeConnection, Callers
    <3>4. HandsAgree'
      BY <1>1, <3>1, <3>3, DgramAssumption, Zenon DEF DgramTypeOK, HandsAgree, Callers
    <3>5. QueuedIsHeld'
      BY <1>1, <3>1, Zenon DEF DgramTypeOK, QueuedIsHeld
    <3> QED BY <3>2, <3>4, <3>5, Zenon
  <2>3. ASSUME NEW c \in DOMAIN addrOf, c \notin marked PROVE Heard(c)'
    <3>1. Heard(c) /\ c # 0 /\ have[g] = 0
      BY <2>3 DEF AllHeard, DgramTypeOK, HandsAgree
    <3>2. \A f \in Callers : place[f] = "mark" /\ have[f] = c => (place[f] = "mark" /\ have[f] = c)'
      BY <1>1, Zenon DEF DgramTypeOK
    <3>3. \A f \in Callers : Holds(f, c) => Holds(f, c)'
      BY <1>1, <3>1, Zenon DEF DgramTypeOK, Holds
    <3> QED BY <1>1, <3>1, <3>2, <3>3, Zenon DEF Heard
  <2>4. DgramAcceptersWake'
    BY <1>1, DgramAssumption, Zenon DEF DgramTypeOK, HandsAgree, DgramAcceptersWake, Callers
  <2> QED BY <1>1, <2>1, <2>2, <2>3, <2>4, Zenon DEF AllHeard
<1>2. CASE conns[addr[g]] = 0
  <2>1. /\ addrOf' = Append(addrOf, addr[g]) /\ Len(addrOf') = n /\ n \in Nat
        /\ addrOf' \in Seq(DgramAddrs) /\ addrOf'[n] = addr[g]
        /\ \A c \in 1..Len(addrOf) : addrOf'[c] = addrOf[c]
        /\ DOMAIN addrOf' = 1..n /\ Len(addrOf) \in Nat
    <3>1. addrOf' = Append(addrOf, addr[g]) /\ addrOf \in Seq(DgramAddrs) /\ addr[g] \in DgramAddrs
      BY <1>2, Zenon DEF DgramTypeOK
    <3> QED BY <3>1
  <2>2. /\ conns' = [conns EXCEPT ![addr[g]] = n] /\ have' = [have EXCEPT ![g] = n]
        /\ place' = [place EXCEPT ![g] = IF g = Reader THEN "queue" ELSE "open"]
        /\ UNCHANGED <<marked, acceptVars, addr, looked>>
    BY <1>2, <2>1, Zenon
  <2> HIDE DEF MakeConnection
  <2>3. DgramTypeOK'
    BY <2>1, <2>2 DEF DgramTypeOK, Places
  <2>4. AddressesAgree'
    <3>1. \A a \in DgramAddrs : conns'[a] = IF a = addr[g] THEN n ELSE conns[a]
      BY <2>2, Zenon DEF DgramTypeOK
    <3>2. \A f \in Callers : have'[f] = IF f = g THEN n ELSE have[f]
      BY <2>2, Zenon DEF DgramTypeOK
    <3>3. \A f \in Callers : place'[f] = "drop" => place[f] = "drop"
      BY <2>2, Zenon DEF DgramTypeOK
    <3>4. \A c \in 0..Len(addrOf) : c # 0 => c \in 1..Len(addrOf)
      BY <2>1
    <3>5. ASSUME NEW a \in DgramAddrs, conns'[a] # 0 PROVE addrOf'[conns'[a]] = a
      <4>1. CASE a = addr[g]
        BY <2>1, <3>1, <4>1, Zenon
      <4>2. CASE a # addr[g]
        <5>1. conns'[a] = conns[a]
          BY <3>1, <4>2, Zenon
        <5>2. conns[a] \in 1..Len(addrOf) /\ addrOf[conns[a]] = a
          BY <3>4, <3>5, <5>1, Zenon DEF DgramTypeOK, AddressesAgree
        <5> QED BY <2>1, <5>1, <5>2, Zenon
      <4> QED BY <4>1, <4>2, Zenon
    <3>6. \A f \in Callers : have'[f] # 0 => addrOf'[have'[f]] = addr'[f]
      BY <2>1, <2>2, <3>2, <3>4, Zenon DEF DgramTypeOK, AddressesAgree
    <3>7. \A f \in Callers :
            place'[f] = "drop" => looked'[f] # 0 /\ addrOf'[looked'[f]] = addr'[f]
      BY <2>1, <2>2, <3>3, <3>4, Zenon DEF DgramTypeOK, AddressesAgree
    <3> QED BY <3>5, <3>6, <3>7, Zenon DEF AddressesAgree
  <2>5. HandsAgree' /\ QueuedIsHeld'
    BY <2>1, <2>2, DgramAssumption DEF DgramTypeOK, HandsAgree, QueuedIsHeld, Callers, MakeConnection
  <2>6. ASSUME NEW c \in DOMAIN addrOf', c \notin marked' PROVE Heard(c)'
    <3>1. CASE c = n
      <4>1. conns'[addrOf'[c]] = c /\ Holds(g, c)'
        BY <3>1, <2>1, <2>2, Zenon DEF DgramTypeOK, Holds
      <4> QED BY <4>1, Zenon DEF Heard
    <3>2. CASE c # n
      <4>1. c \in 1..Len(addrOf) /\ c \notin marked
        BY <2>1, <2>2, <2>6, <3>2
      <4>2. Heard(c) /\ c # 0 /\ have[g] = 0 /\ place[g] = "make"
        BY <4>1 DEF AllHeard, DgramTypeOK, HandsAgree, MakeConnection
      <4>3. \A f \in Callers : place[f] = "mark" /\ have[f] = c => (place[f] = "mark" /\ have[f] = c)'
        BY <2>2, <4>2, Zenon DEF DgramTypeOK
      <4>4. \A f \in Callers : Holds(f, c) => Holds(f, c)'
        BY <2>2, <4>2, Zenon DEF DgramTypeOK, Holds
      <4>5. conns[addrOf[c]] = c => conns'[addrOf'[c]] = c
        BY <1>2, <2>1, <2>2, <4>1, <4>2 DEF DgramTypeOK
      <4> QED BY <2>2, <4>2, <4>3, <4>4, <4>5, Zenon DEF Heard
    <3> QED BY <3>1, <3>2, Zenon
  <2>7. DgramAcceptersWake'
    BY <2>2, DgramAssumption DEF DgramTypeOK, HandsAgree, DgramAcceptersWake, Callers, MakeConnection
  <2> QED BY <2>3, <2>4, <2>5, <2>6, <2>7, Zenon DEF AllHeard
<1> QED BY <1>1, <1>2, Zenon

\* The reader queues the connection that it made, or goes on to drop it.
LEMMA QueueConnectionKeeps ==
  ASSUME DgramInv, QueueConnection
  PROVE  DgramInv'
<1> DEFINE c0 == have[Reader]
<1>1. CASE Len(acceptQueue) < cAcceptQueue
  <2>1. /\ place[Reader] = "queue" /\ acceptQueue' = Append(acceptQueue, c0)
        /\ waiting' \in AcceptSignalled /\ place' = [place EXCEPT ![Reader] = "push"]
        /\ UNCHANGED <<tableVars, marked, tClosed, addr, have, looked>>
    BY <1>1, DgramAssumption DEF QueueConnection, Goto, DgramInv, DgramTypeOK
  <2> USE DEF DgramInv, tableVars
  <2>2. c0 # 0 /\ c0 \in 1..Len(addrOf) /\ c0 \in Nat
    BY <2>1 DEF QueuedIsHeld, DgramTypeOK, Callers
  <2>3. Range(acceptQueue') = Range(acceptQueue) \cup {c0} /\ acceptQueue' \in Seq(Nat)
    <3>1. acceptQueue \in Seq(Nat)
      BY Zenon DEF DgramTypeOK
    <3>2. Range(Append(acceptQueue, c0)) = Range(acceptQueue) \cup {c0}
      BY <2>2, <3>1, RangeAppend
    <3> QED BY <2>1, <2>2, <3>1, <3>2
  <2>4. waiting' \subseteq waiting
    BY <2>1, Zenon DEF AcceptSignalled
  <2>5. DgramTypeOK'
    BY <2>1, <2>2, <2>3, <2>4, Zenon DEF DgramTypeOK, Places
  <2>6. AddressesAgree' /\ HandsAgree' /\ QueuedIsHeld'
    BY <2>1, <2>4, DgramAssumption,
       Zenon DEF DgramTypeOK, AddressesAgree, HandsAgree, QueuedIsHeld, Callers
  <2>7. ASSUME NEW c \in DOMAIN addrOf, c \notin marked PROVE Heard(c)'
    <3>1. Heard(c)
      BY <2>7, Zenon DEF AllHeard
    <3>2. \A f \in Callers : place[f] = "mark" /\ have[f] = c => (place[f] = "mark" /\ have[f] = c)'
      BY <2>1, Zenon DEF DgramTypeOK
    <3>3. \A f \in Callers : Holds(f, c) => Holds(f, c)' \/ c = c0
      BY <2>1, Zenon DEF DgramTypeOK, Holds
    <3> QED BY <2>1, <2>3, <3>1, <3>2, <3>3, Zenon DEF Heard
  <2>8. DgramAcceptersWake'
    <3> SUFFICES ASSUME waiting' # {} PROVE ~tClosed /\ \E u \in Users \ waiting' : place'[u] = "accept"
      BY <2>1, Zenon DEF DgramAcceptersWake
    <3>1. PICK u \in waiting : waiting' = waiting \ {u}
      BY <2>1, Zenon DEF AcceptSignalled
    <3>2. u \in Users /\ u \notin waiting' /\ place[u] = "accept" /\ u # Reader
      BY <3>1, DgramAssumption, Zenon DEF DgramTypeOK, HandsAgree
    <3> QED BY <2>1, <3>1, <3>2, Zenon DEF DgramAcceptersWake, DgramTypeOK, Callers
  <2> QED BY <2>1, <2>5, <2>6, <2>7, <2>8, Zenon DEF AllHeard
<1>2. CASE ~(Len(acceptQueue) < cAcceptQueue)
  <2>1. /\ place[Reader] = "queue" /\ place' = [place EXCEPT ![Reader] = "look"]
        /\ UNCHANGED <<tableVars, marked, acceptVars, addr, have, looked>>
    BY <1>2, Zenon DEF QueueConnection, QueueFull, Goto, acceptVars
  <2> USE DEF DgramInv, tableVars, acceptVars
  <2>2. DgramTypeOK'
    BY <2>1, Zenon DEF DgramTypeOK, Places
  <2>3. AddressesAgree' /\ HandsAgree' /\ QueuedIsHeld'
    BY <2>1, DgramAssumption,
       Zenon DEF DgramTypeOK, AddressesAgree, HandsAgree, QueuedIsHeld, Callers
  <2>4. ASSUME NEW c \in DOMAIN addrOf, c \notin marked PROVE Heard(c)'
    <3>1. Heard(c)
      BY <2>4 DEF AllHeard
    <3>2. \A f \in Callers : place[f] = "mark" /\ have[f] = c => (place[f] = "mark" /\ have[f] = c)'
      BY <2>1, Zenon DEF DgramTypeOK
    <3>3. \A f \in Callers : Holds(f, c) => Holds(f, c)'
      BY <2>1, Zenon DEF DgramTypeOK, Holds
    <3> QED BY <2>1, <3>1, <3>2, <3>3, Zenon DEF Heard
  <2>5. DgramAcceptersWake'
    BY <2>1, DgramAssumption, Zenon DEF DgramTypeOK, DgramAcceptersWake, Callers
  <2> QED BY <2>1, <2>2, <2>3, <2>4, <2>5, Zenon DEF AllHeard
<1> QED BY <1>1, <1>2, Zenon

\* The reader has passed its message on.
LEMMA DeliverKeeps ==
  ASSUME DgramInv, Deliver
  PROVE  DgramInv'
<1> USE DEF Deliver, Goto, tableVars, acceptVars, DgramInv
<1>1. DgramTypeOK'
  <2>1. 0 \in 0..Len(addrOf)
    BY DEF DgramTypeOK
  <2> QED BY <2>1, Zenon DEF DgramTypeOK, Places
<1>2. AddressesAgree' /\ HandsAgree' /\ QueuedIsHeld'
  BY DgramAssumption, Zenon DEF DgramTypeOK, AddressesAgree, HandsAgree, QueuedIsHeld, Callers
<1>3. ASSUME NEW c \in DOMAIN addrOf, c \notin marked PROVE Heard(c)'
  <2>1. Heard(c)
    BY <1>3, Zenon DEF AllHeard
  <2>2. \A f \in Callers : place[f] = "mark" /\ have[f] = c => (place[f] = "mark" /\ have[f] = c)'
    BY Zenon DEF DgramTypeOK
  <2>3. \A f \in Callers : Holds(f, c) => Holds(f, c)'
    BY Zenon DEF DgramTypeOK, Holds
  <2> QED BY <2>1, <2>2, <2>3, Zenon DEF Heard
<1>4. DgramAcceptersWake'
  BY DgramAssumption, Zenon DEF DgramTypeOK, DgramAcceptersWake, Callers
<1> QED BY <1>1, <1>2, <1>3, <1>4, Zenon DEF AllHeard

\* A user sleeps, fails, or takes the first of the queue and wakes the next.
LEMMA AcceptKeeps ==
  ASSUME DgramInv, NEW u \in Users, Accept(u)
  PROVE  DgramInv'
<1>0. /\ u \in Callers /\ u # Reader /\ have[u] = 0 /\ u \notin waiting
      /\ place[u] \in {"idle", "accept"} /\ UNCHANGED <<tableVars, marked, tClosed, looked>>
  BY DgramAssumption, Zenon DEF Accept, DgramInv, HandsAgree, Callers
<1>1. CASE acceptQueue = <<>> /\ ~tClosed
  <2>1. /\ waiting' = waiting \cup {u} /\ place' = [place EXCEPT ![u] = "accept"]
        /\ UNCHANGED <<acceptQueue, addr, have>>
    BY <1>1, Zenon DEF Accept, Goto
  <2> USE <1>0, <2>1 DEF DgramInv, tableVars
  <2>2. DgramTypeOK'
    BY Zenon DEF DgramTypeOK, Places
  <2>3. AddressesAgree' /\ HandsAgree' /\ QueuedIsHeld'
    BY Zenon DEF DgramTypeOK, AddressesAgree, HandsAgree, QueuedIsHeld, Callers
  <2>4. ASSUME NEW c \in DOMAIN addrOf, c \notin marked PROVE Heard(c)'
    <3>1. Heard(c)
      BY <2>4, Zenon DEF AllHeard
    <3>2. \A f \in Callers : place[f] = "mark" /\ have[f] = c => (place[f] = "mark" /\ have[f] = c)'
      BY Zenon DEF DgramTypeOK
    <3>3. \A f \in Callers : Holds(f, c) => Holds(f, c)'
      BY Zenon DEF DgramTypeOK, Holds
    <3> QED BY <3>1, <3>2, <3>3, Zenon DEF Heard
  <2>5. DgramAcceptersWake'
    BY <1>1, Zenon DEF DgramAcceptersWake
  <2> QED BY <2>2, <2>3, <2>4, <2>5, Zenon DEF AllHeard
<1>2. CASE tClosed
  <2>1. /\ place' = [place EXCEPT ![u] = "idle"]
        /\ UNCHANGED <<waiting, acceptQueue, addr, have>>
    BY <1>2, Zenon DEF Accept, Goto
  <2> USE <1>0, <2>1 DEF DgramInv, tableVars
  <2>2. DgramTypeOK'
    BY Zenon DEF DgramTypeOK, Places
  <2>3. AddressesAgree' /\ HandsAgree' /\ QueuedIsHeld'
    BY Zenon DEF DgramTypeOK, AddressesAgree, HandsAgree, QueuedIsHeld, Callers
  <2>4. ASSUME NEW c \in DOMAIN addrOf, c \notin marked PROVE Heard(c)'
    <3>1. Heard(c)
      BY <2>4, Zenon DEF AllHeard
    <3>2. \A f \in Callers : place[f] = "mark" /\ have[f] = c => (place[f] = "mark" /\ have[f] = c)'
      BY Zenon DEF DgramTypeOK
    <3>3. \A f \in Callers : Holds(f, c) => Holds(f, c)'
      BY Zenon DEF DgramTypeOK, Holds
    <3> QED BY <3>1, <3>2, <3>3, Zenon DEF Heard
  <2>5. DgramAcceptersWake'
    BY <1>2, Zenon DEF DgramAcceptersWake
  <2> QED BY <2>2, <2>3, <2>4, <2>5, Zenon DEF AllHeard
<1>3. CASE acceptQueue # <<>> /\ ~tClosed
  <2>0. PICK c0 : c0 = Head(acceptQueue)
    BY Zenon
  <2>1. /\ have' = [have EXCEPT ![u] = c0] /\ addr' = [addr EXCEPT ![u] = addrOf[c0]]
        /\ acceptQueue' = Tail(acceptQueue) /\ place' = [place EXCEPT ![u] = "open"]
        /\ IF Len(acceptQueue) > 1 THEN waiting' \in AcceptSignalled ELSE waiting' = waiting
    BY <1>3, <2>0, Zenon DEF Accept, Goto
  <2> USE DEF DgramInv, tableVars
  <2>2. /\ Range(acceptQueue) = {c0} \cup Range(acceptQueue') /\ acceptQueue' \in Seq(Nat)
        /\ acceptQueue' # <<>> => Len(acceptQueue) > 1
    <3>1. acceptQueue \in Seq(Nat)
      BY Zenon DEF DgramTypeOK
    <3>2. Range(acceptQueue) = {c0} \cup Range(Tail(acceptQueue))
      BY <1>3, <2>0, <3>1, RangeTail, Zenon
    <3> QED BY <1>3, <2>1, <3>1, <3>2
  <2>3. c0 \in 1..Len(addrOf) /\ c0 # 0 /\ addrOf[c0] \in DgramAddrs
    <3>1. c0 \in Range(acceptQueue) /\ Range(acceptQueue) \subseteq 1..Len(addrOf)
      BY <2>2, Zenon DEF DgramTypeOK
    <3>2. addrOf \in Seq(DgramAddrs)
      BY Zenon DEF DgramTypeOK
    <3> QED BY <3>1, <3>2
  <2>4. waiting' \subseteq waiting
    BY <2>1, Zenon DEF AcceptSignalled
  <2>5. DgramTypeOK'
    <3>1. Range(acceptQueue') \subseteq 1..Len(addrOf)
      BY <2>2, Zenon DEF DgramTypeOK
    <3>2. "open" \in Places /\ c0 \in 0..Len(addrOf)
      BY <2>3 DEF Places
    <3>3. place' \in [Callers -> Places] /\ addr' \in [Callers -> DgramAddrs]
          /\ have' \in [Callers -> 0..Len(addrOf)]
      BY <2>1, <2>3, <3>2, Zenon DEF DgramTypeOK
    <3> QED BY <1>0, <2>2, <2>4, <3>1, <3>3, Zenon DEF DgramTypeOK
  <2>6. AddressesAgree'
    BY <1>0, <2>1, <2>3, Zenon DEF DgramTypeOK, AddressesAgree
  <2>7. HandsAgree' /\ QueuedIsHeld'
    BY <1>0, <2>1, <2>3, <2>4, Zenon DEF DgramTypeOK, HandsAgree, QueuedIsHeld, Callers
  <2>8. ASSUME NEW c \in DOMAIN addrOf, c \notin marked PROVE Heard(c)'
    <3>1. Heard(c) /\ c # 0
      BY <2>8 DEF AllHeard, DgramTypeOK
    <3>2. \A f \in Callers : place[f] = "mark" /\ have[f] = c => (place[f] = "mark" /\ have[f] = c)'
      BY <1>0, <2>1, Zenon DEF DgramTypeOK
    <3>3. \A f \in Callers : Holds(f, c) => Holds(f, c)'
      BY <1>0, <2>1, <3>1, Zenon DEF DgramTypeOK, Holds
    <3>4. Holds(u, c0)'
      BY <1>0, <2>1, Zenon DEF DgramTypeOK, Holds
    <3> QED BY <1>0, <2>2, <3>1, <3>2, <3>3, <3>4, Zenon DEF Heard
  <2>9. DgramAcceptersWake'
    <3> SUFFICES ASSUME waiting' # {}
                 PROVE  acceptQueue' # <<>> => \E v \in Users \ waiting' : place'[v] = "accept"
      BY <1>0, <1>3, Zenon DEF DgramAcceptersWake
    <3> SUFFICES ASSUME acceptQueue' # <<>> PROVE \E v \in Users \ waiting' : place'[v] = "accept"
      BY Zenon
    <3>1. PICK v \in waiting : waiting' = waiting \ {v}
      BY <2>1, <2>2, Zenon DEF AcceptSignalled
    <3>2. v \in Users /\ v \notin waiting' /\ place[v] = "accept" /\ v # u
      BY <1>0, <3>1, Zenon DEF DgramTypeOK, HandsAgree
    <3> QED BY <2>1, <3>2, Zenon DEF DgramTypeOK, Callers
  <2> QED BY <1>0, <2>5, <2>6, <2>7, <2>8, <2>9, Zenon DEF AllHeard
<1> QED BY <1>1, <1>2, <1>3, Zenon

\* Close of a connection marks it first.
LEMMA CloseConnectionKeeps ==
  ASSUME DgramInv, NEW u \in Users, CloseConnection(u)
  PROVE  DgramInv'
<1> USE DEF CloseConnection, Goto, tableVars, acceptVars, DgramInv
<1>0. u \in Callers /\ u # Reader
  BY DgramAssumption, Zenon DEF Callers
<1>1. DgramTypeOK'
  BY Zenon DEF DgramTypeOK, Places
<1>2. AddressesAgree' /\ HandsAgree' /\ QueuedIsHeld'
  BY <1>0, Zenon DEF DgramTypeOK, AddressesAgree, HandsAgree, QueuedIsHeld, Callers
<1>3. ASSUME NEW c \in DOMAIN addrOf, c \notin marked' PROVE Heard(c)'
  <2>1. Heard(c) /\ c # have[u]
    BY <1>3, Zenon DEF AllHeard
  <2>2. \A f \in Callers : place[f] = "mark" /\ have[f] = c => (place[f] = "mark" /\ have[f] = c)'
    BY Zenon DEF DgramTypeOK
  <2>3. \A f \in Callers : Holds(f, c) => Holds(f, c)'
    BY <1>0, Zenon DEF DgramTypeOK, Holds
  <2> QED BY <2>1, <2>2, <2>3, Zenon DEF Heard
<1>4. DgramAcceptersWake'
  BY <1>0, Zenon DEF DgramTypeOK, DgramAcceptersWake, Callers
<1> QED BY <1>1, <1>2, <1>3, <1>4, Zenon DEF AllHeard

\* dropConnection, first look: what the reader could not queue is found, or someone is
\* about to mark it.
LEMMA StillThereKeeps ==
  ASSUME DgramInv, NEW g \in Callers, StillThere(g)
  PROVE  DgramInv'
<1> USE DEF StillThere, Goto, tableVars, acceptVars, DgramInv
<1>1. DgramTypeOK'
  <2>1. 0 \in 0..Len(addrOf)
    BY DEF DgramTypeOK
  <2> QED BY <2>1, Zenon DEF DgramTypeOK, Places
<1>2. AddressesAgree' /\ HandsAgree' /\ QueuedIsHeld'
  <2>1. AddressesAgree'
    BY DEF DgramTypeOK, AddressesAgree
  <2>2. HandsAgree'
    BY DgramAssumption DEF DgramTypeOK, HandsAgree, Callers
  <2>3. QueuedIsHeld'
    BY DEF DgramTypeOK, QueuedIsHeld
  <2> QED BY <2>1, <2>2, <2>3, Zenon
<1>3. ASSUME NEW c \in DOMAIN addrOf, c \notin marked PROVE Heard(c)'
  <2>1. Heard(c) /\ c # 0
    BY <1>3 DEF AllHeard, DgramTypeOK
  <2>2. \A f \in Callers : place[f] = "mark" /\ have[f] = c => (place[f] = "mark" /\ have[f] = c)'
    BY Zenon DEF DgramTypeOK
  <2>3. \A f \in Callers : Holds(f, c) /\ f # g => Holds(f, c)'
    BY Zenon DEF DgramTypeOK, Holds
  <2>4. \A f \in Callers : place[f] = "mark" /\ have[f] = c => Holds(f, c)'
    BY Zenon DEF DgramTypeOK, Holds
  <2>5. Holds(g, c) /\ conns[addrOf[c]] = c => Holds(g, c)'
    <3> SUFFICES ASSUME Holds(g, c), conns[addrOf[c]] = c PROVE Holds(g, c)'
      BY Zenon
    <3>1. have[g] = c /\ addrOf[c] = addr[g]
      BY <2>1, Zenon DEF Holds, AddressesAgree
    <3> QED BY <2>1, <3>1, Zenon DEF DgramTypeOK, Holds
  <2> QED BY <2>1, <2>2, <2>3, <2>4, <2>5, Zenon DEF Heard
<1>4. DgramAcceptersWake'
  BY DgramAssumption, Zenon DEF DgramTypeOK, DgramAcceptersWake, HandsAgree, Callers
<1> QED BY <1>1, <1>2, <1>3, <1>4, Zenon DEF AllHeard

\* dropConnection, second look: the one that is there is about to be marked, and one that
\* is gone is about to be marked by another caller.
LEMMA DropKeeps ==
  ASSUME DgramInv, NEW g \in Callers, Drop(g)
  PROVE  DgramInv'
<1> USE DEF Drop, Goto, tableVars, acceptVars, DgramInv
<1>1. DgramTypeOK'
  <2>1. 0 \in 0..Len(addrOf)
    BY DEF DgramTypeOK
  <2> QED BY <2>1, Zenon DEF DgramTypeOK, Places
<1>2. AddressesAgree' /\ HandsAgree' /\ QueuedIsHeld'
  <2>1. AddressesAgree'
    BY DEF DgramTypeOK, AddressesAgree
  <2>2. HandsAgree'
    BY DgramAssumption DEF DgramTypeOK, HandsAgree, Callers
  <2>3. QueuedIsHeld'
    BY DEF DgramTypeOK, QueuedIsHeld
  <2> QED BY <2>1, <2>2, <2>3, Zenon
<1>3. ASSUME NEW c \in DOMAIN addrOf, c \notin marked PROVE Heard(c)'
  <2>1. Heard(c) /\ c # 0 /\ have[g] = 0 /\ addrOf[c] \in DgramAddrs
    BY <1>3 DEF AllHeard, DgramTypeOK, HandsAgree
  <2>2. ASSUME NEW f \in Callers, place[f] = "mark" /\ have[f] = c PROVE Heard(c)'
    <3>1. f # g
      BY <2>2, Zenon
    <3>2. (place[f] = "mark" /\ have[f] = c)' /\ Holds(f, c)'
      BY <2>2, <3>1, Zenon DEF DgramTypeOK, Holds
    <3> QED BY <3>2, Zenon DEF Heard
  <2>3. CASE conns[addr[g]] = c
    <3>1. place'[g] = "mark" /\ have'[g] = c
      BY <2>1, <2>3, Zenon DEF DgramTypeOK
    <3> QED BY <3>1, Zenon DEF Heard, Holds
  <2>4. CASE conns[addrOf[c]] = c /\ conns[addr[g]] # c
    <3>1. addrOf[c] # addr[g] /\ conns'[addrOf[c]] = c
      BY <2>1, <2>4, Zenon DEF DgramTypeOK
    <3>2. ~Holds(g, c)
      BY <2>1, <3>1, Zenon DEF Holds, AddressesAgree
    <3>3. \A f \in Callers : Holds(f, c) => Holds(f, c)'
      BY <3>2, Zenon DEF DgramTypeOK, Holds
    <3> QED BY <2>1, <3>1, <3>3, Zenon DEF Heard
  <2> QED BY <2>1, <2>2, <2>3, <2>4, Zenon DEF Heard
<1>4. DgramAcceptersWake'
  BY DgramAssumption, Zenon DEF DgramTypeOK, DgramAcceptersWake, HandsAgree, Callers
<1> QED BY <1>1, <1>2, <1>3, <1>4, Zenon DEF AllHeard

\* The connection that dropConnection found is marked.
LEMMA MarkKeeps ==
  ASSUME DgramInv, NEW g \in Callers, Mark(g)
  PROVE  DgramInv'
<1> USE DEF Mark, Goto, tableVars, acceptVars, DgramInv
<1>1. DgramTypeOK'
  <2>1. 0 \in 0..Len(addrOf)
    BY DEF DgramTypeOK
  <2> QED BY <2>1, Zenon DEF DgramTypeOK, Places
<1>2. AddressesAgree' /\ HandsAgree' /\ QueuedIsHeld'
  BY DgramAssumption, Zenon DEF DgramTypeOK, AddressesAgree, HandsAgree, QueuedIsHeld, Callers
<1>3. ASSUME NEW c \in DOMAIN addrOf, c \notin marked' PROVE Heard(c)'
  <2>1. Heard(c) /\ c # have[g] /\ c # 0
    BY <1>3 DEF AllHeard, DgramTypeOK
  <2>2. \A f \in Callers : place[f] = "mark" /\ have[f] = c => (place[f] = "mark" /\ have[f] = c)'
    BY <2>1, Zenon DEF DgramTypeOK
  <2>3. \A f \in Callers : Holds(f, c) => Holds(f, c)'
    BY <2>1, Zenon DEF DgramTypeOK, Holds
  <2> QED BY <2>1, <2>2, <2>3, Zenon DEF Heard
<1>4. DgramAcceptersWake'
  BY DgramAssumption, Zenon DEF DgramTypeOK, DgramAcceptersWake, HandsAgree, Callers
<1> QED BY <1>1, <1>2, <1>3, <1>4, Zenon DEF AllHeard

\* Close of the transport marks every connection of the table and wakes every accepter.
LEMMA CloseTransportKeeps ==
  ASSUME DgramInv, CloseTransport
  PROVE  DgramInv'
<1> USE DEF CloseTransport, tableVars, callVars, DgramInv
<1>1. DgramTypeOK'
  BY Zenon DEF DgramTypeOK
<1>2. AddressesAgree' /\ HandsAgree' /\ QueuedIsHeld' /\ DgramAcceptersWake'
  BY Zenon DEF AddressesAgree, HandsAgree, QueuedIsHeld, DgramAcceptersWake
<1>3. ASSUME NEW c \in DOMAIN addrOf, c \notin marked' PROVE Heard(c)'
  BY <1>3, Zenon DEF AllHeard, Heard, Holds
<1> QED BY <1>1, <1>2, <1>3, Zenon DEF AllHeard

\* A step that changes nothing of the transport.
LEMMA DgramStutterKeeps == DgramInv /\ UNCHANGED dgramVars => DgramInv'
BY DEF dgramVars, tableVars, acceptVars, callVars, DgramInv, DgramTypeOK, AddressesAgree,
   HandsAgree, QueuedIsHeld, AllHeard, Heard, Holds, DgramAcceptersWake

\* Every step of the transport keeps the invariant.
LEMMA DgramStepInv == DgramInv /\ [DgramNext]_dgramVars => DgramInv'
BY LookupKeeps, MakeConnectionKeeps, QueueConnectionKeeps, DeliverKeeps, AcceptKeeps,
   CloseConnectionKeeps, StillThereKeeps, DropKeeps, MarkKeeps, CloseTransportKeeps,
   DgramStutterKeeps, Zenon DEF DgramNext

\* The invariant implies what is checked.
LEMMA DgramInvImplies == DgramInv => OpenIsHeard /\ DgramAcceptersWake
BY Zenon DEF DgramInv, AllHeard, Heard, Holds, OpenIsHeard

-----------------------------------------------------------------------------
(* The queue of a connection.                                              *)

\* Who sleeps is in Read, and without deadlines nothing ends Read but Close.
QueueInv ==
  /\ readQueue \in Nat /\ sleeping \subseteq reading
  /\ ~usesDeadlines => ~deadlineReached /\ deadlineTimer = "off"
  /\ MessagesAreRead

\* Every step of a queue keeps its invariant: PushMessage wakes a reader, and a reader that
\* leaves messages behind wakes another (half_pipe.go).
LEMMA QueueStepInv == QueueInv /\ [HalfPipeNext]_halfPipeVars => QueueInv'
<1> SUFFICES ASSUME QueueInv, [HalfPipeNext]_halfPipeVars PROVE QueueInv'
  BY Zenon
<1> USE DEF QueueInv, MessagesAreRead
<1>1. CASE PushMessage
  BY <1>1 DEF PushMessage, Signalled
<1>2. CASE Close
  BY <1>2, Zenon DEF Close, Signalled
<1>3. ASSUME NEW r \in HalfPipeReaders, Read(r) PROVE QueueInv'
  BY <1>3 DEF Read, Signalled
<1>4. CASE DeadlineFires \/ SetDeadlineReached \/ \E d \in {"zero", "past", "future"} : SetReadDeadline(d)
  BY <1>4 DEF DeadlineFires, SetDeadlineReached, SetReadDeadline
<1>5. CASE UNCHANGED halfPipeVars
  BY <1>5, Zenon DEF halfPipeVars
<1> QED BY <1>1, <1>2, <1>3, <1>4, <1>5, Zenon DEF HalfPipeNext

-----------------------------------------------------------------------------
\* Whatever the number of users, addresses, connections and readers, and however their
\* calls, the socket's reader and Close of the transport interleave: a connection that is
\* open gets the datagrams of its address and is not forgotten, and neither an accepter nor
\* a reader sleeps on a queue that holds something for it (getConnection, dropConnection,
\* reader, Accept and Close of dgram_transport.go; half_pipe.go).
THEOREM ArrivalsHeard == DgramSpec /\ HalfPipeSpec => []ArrivalsAreHeard
<1>1. DgramInit => DgramInv
  BY DgramInitInv, Zenon
<1>2. DgramInv /\ [DgramNext]_dgramVars => DgramInv'
  BY DgramStepInv, Zenon
<1>3. HalfPipeInit => QueueInv
  BY DEF HalfPipeInit, QueueInv, MessagesAreRead
<1>4. QueueInv /\ [HalfPipeNext]_halfPipeVars => QueueInv'
  BY QueueStepInv
<1>5. DgramInv /\ QueueInv => ArrivalsAreHeard
  BY DgramInvImplies, Zenon DEF QueueInv, ArrivalsAreHeard
<1> QED BY <1>1, <1>2, <1>3, <1>4, <1>5, PTL DEF DgramSpec, HalfPipeSpec

-----------------------------------------------------------------------------
(* The numbers of channels                                                 *)

Numbers == 0..(IdLimit - 1)
Hook == OpenExchanges \cup {"app", "free"}
OpenedChannel == [x : OpenExchanges, id : Numbers, by : Sides, hooks : [arr : Nat, len : Nat]]

(* A number of the side that numbers its channels so.                      *)
OwnNumber(x, side, n) == IsHigh(x, side) <=> n % 2 = 1

(* A slice is within its array.                                            *)
SlicesOK ==
  /\ arrays \in Seq(Seq(Hook))
  /\ eHooks \in [arr : 0..Len(arrays), len : Nat]
  /\ IF eHooks.arr = 0 THEN eHooks.len = 0 ELSE eHooks.len <= Len(arrays[eHooks.arr])
  /\ xHooks \in [OpenExchanges -> [arr : Nat, len : Nat]]

(* A counter that has not started, or has come round to zero, is at zero;  *)
(* the others are at a number of their side.                               *)
CountersOK ==
  /\ nextId \in [OpenExchanges -> [Sides -> Numbers]]
  /\ \A x \in OpenExchanges, s \in Sides : nextId[x][s] # 0 => OwnNumber(x, s, nextId[x][s])

(* A channel has a number of the side that opened it, and is the only one  *)
(* that the set may have under it.                                         *)
OwnNumbers(cs) ==
  \A c \in 1..Len(cs) : cs[c].id # 0 /\ OwnNumber(cs[c].x, cs[c].by, cs[c].id)
Placed(table, cs) ==
  \A x \in OpenExchanges, n \in Numbers : table[x][n] # 0 =>
    table[x][n] \in 1..Len(cs) /\ cs[table[x][n]].x = x /\ cs[table[x][n]].id = n
OpenedOK ==
  /\ opened \in Seq(OpenedChannel) /\ OwnNumbers(opened)
  /\ numbered \in [OpenExchanges -> [Numbers -> Nat]] /\ Placed(numbered, opened)
  /\ openChannels \subseteq 1..Len(opened)

NumberInv == SlicesOK /\ CountersOK /\ OpenedOK /\ ~mixed

(* The endpoint's slice fills its array, so what is appended to a copy of  *)
(* it is in an array of its own; that of an exchange ends with the hook of *)
(* the exchange, and a channel has that slice.                             *)
EndsWith(as, s, x) ==
  /\ s.arr \in 1..Len(as) /\ s.len \in 1..Len(as[s.arr])
  /\ as[s.arr][s.len] = x
  /\ \A i \in 1..(s.len - 1) : as[s.arr][i] = "app"
Filled(as, s) ==
  /\ s.len <= 2
  /\ s.arr # 0 => Len(as[s.arr]) = s.len /\ \A i \in 1..s.len : as[s.arr][i] = "app"
ExchangeHooks(as, xs) == \A x \in OpenExchanges : xs[x] # NilSlice => EndsWith(as, xs[x], x)
ChannelHooks(cs, xs) ==
  \A c \in 1..Len(cs) : cs[c].hooks = xs[cs[c].x] /\ cs[c].hooks # NilSlice
HooksOK ==
  Filled(arrays, eHooks) /\ ExchangeHooks(arrays, xHooks) /\ ChannelHooks(opened, xHooks)

(* An open channel is the one of its number, and no other is.              *)
Current(table, cs, live) ==
  \A c \in 1..Len(cs) : (table[cs[c].x][cs[c].id] = c) <=> (c \in live)
CurrentOK == ~outlived /\ stopped = {} => Current(numbered, opened, openChannels)

OpeningInv == NumberInv /\ HooksOK /\ CurrentOK

(* The two sides of an exchange number their channels apart.               *)
LEMMA SidesDiffer ==
  ASSUME NEW x, NEW n \in Nat
  PROVE  ~(OwnNumber(x, "local", n) /\ OwnNumber(x, "peer", n))
<1>1. IsHigh(x, "local") <=> ~IsHigh(x, "peer")
  BY DEF IsHigh
<1> QED
  BY <1>1, Zenon DEF OwnNumber

(* A counter at a number of the high side, or at zero, gives an odd one;   *)
(* one at a number of the low side, or at zero, an even one; never zero.   *)
LEMMA NextChannelID ==
  ASSUME NEW n \in Numbers, NEW high \in BOOLEAN, n # 0 => (high <=> n % 2 = 1)
  PROVE  /\ GetNextChannelID(n, high) \in Numbers
         /\ GetNextChannelID(n, high) # 0
         /\ high <=> GetNextChannelID(n, high) % 2 = 1
<1>1. IdLimit \in Nat /\ IdLimit > 2 /\ IdLimit % 2 = 0
  BY OpeningAssumption
<1>2. CASE n # 0
  <2>1. high = (n % 2 = 1)
    BY <1>2, Zenon
  <2>2. GetNextChannelID(n, high) = n
    BY <1>2, <2>1, Zenon DEF GetNextChannelID
  <2> QED
    BY <1>2, <2>2, Zenon
<1>3. CASE n = 0 /\ high
  <2>1. 1 % 2 = 1 /\ 1 \in Numbers /\ 1 # 0
    BY <1>1 DEF Numbers
  <2>2. high = (1 % 2 = 1)
    BY <1>3, <2>1, Zenon
  <2>3. GetNextChannelID(n, high) = 1
    BY <1>3, <2>2, Zenon DEF GetNextChannelID
  <2> QED
    BY <1>3, <2>1, <2>3, Zenon
<1>4. CASE n = 0 /\ ~high
  <2>1. (1 + 1) % IdLimit = 2 /\ 1 % 2 = 1 /\ 2 % 2 # 1 /\ 2 \in Numbers /\ 2 # 0
    BY <1>1 DEF Numbers
  <2>2. high # (1 % 2 = 1)
    BY <1>4, <2>1, Zenon
  <2>3. GetNextChannelID(n, high) = 2
    BY <1>4, <2>1, <2>2, Zenon DEF GetNextChannelID
  <2> QED
    BY <1>4, <2>1, <2>3, Zenon
<1> QED
  BY <1>2, <1>3, <1>4, Zenon

(* Two further, a number is of the same side, or is zero.                  *)
LEMMA TwoFurther ==
  ASSUME NEW n \in Numbers
  PROVE  /\ (n + 2) % IdLimit \in Numbers
         /\ ((n + 2) % IdLimit) % 2 = n % 2
<1>1. IdLimit \in Nat /\ IdLimit > 2 /\ IdLimit % 2 = 0
  BY OpeningAssumption
<1>2. n \in Nat /\ n < IdLimit
  BY <1>1 DEF Numbers
<1>3. CASE n + 2 < IdLimit
  <2>1. (n + 2) % IdLimit = n + 2
    BY <1>1, <1>2, <1>3
  <2> QED
    BY <1>1, <1>2, <1>3, <2>1 DEF Numbers
<1>4. CASE n + 2 >= IdLimit
  <2>1. (n + 2) % IdLimit = n + 2 - IdLimit
    BY <1>1, <1>2, <1>4
  <2>2. (n + 2 - IdLimit) % 2 = n % 2
    BY <1>1, <1>2
  <2> QED
    BY <1>1, <1>2, <1>4, <2>1, <2>2 DEF Numbers
<1> QED
  BY <1>1, <1>2, <1>3, <1>4

(* getNextChannelID gives a number of the side that asks, not zero.        *)
LEMMA NumberIs ==
  ASSUME CountersOK, NEW x \in OpenExchanges, NEW s \in Sides
  PROVE  /\ Number(x, s) \in Numbers /\ Number(x, s) # 0
         /\ OwnNumber(x, s, Number(x, s))
<1>1. nextId[x][s] \in Numbers /\ (nextId[x][s] # 0 => (IsHigh(x, s) <=> nextId[x][s] % 2 = 1))
  BY Zenon DEF CountersOK, OwnNumber
<1>2. IsHigh(x, s) \in BOOLEAN
  BY Zenon DEF IsHigh
<1> QED
  BY <1>1, <1>2, NextChannelID, Zenon DEF Number, OwnNumber

(* The counter goes on to a number of its side.                            *)
LEMMA TookKeeps ==
  ASSUME CountersOK, NEW x \in OpenExchanges, NEW s \in Sides, Took(x, s, Number(x, s))
  PROVE  CountersOK'
<1> DEFINE n == Number(x, s)
           m == (n + 2) % IdLimit
<1>1. n \in Numbers /\ OwnNumber(x, s, n)
  BY NumberIs, Zenon
<1>2. m \in Numbers /\ m % 2 = n % 2
  BY <1>1, TwoFurther, Zenon
<1>3. OwnNumber(x, s, m)
  BY <1>1, <1>2, Zenon DEF OwnNumber
<1>4. nextId' = [nextId EXCEPT ![x] = [nextId[x] EXCEPT ![s] = m]]
  BY Zenon DEF Took, CountersOK
<1> HIDE DEF m, n
<1>5. nextId' \in [OpenExchanges -> [Sides -> Numbers]]
  BY <1>2, <1>4, Zenon DEF CountersOK
<1>6. \A y \in OpenExchanges, r \in Sides :
        nextId'[y][r] = nextId[y][r] \/ (y = x /\ r = s /\ nextId'[y][r] = m)
  BY <1>4, Zenon DEF CountersOK
<1>7. \A y \in OpenExchanges, r \in Sides :
        nextId'[y][r] # 0 => OwnNumber(y, r, nextId'[y][r])
  BY <1>3, <1>6, Zenon DEF CountersOK
<1> QED
  BY <1>5, <1>7, Zenon DEF CountersOK, OwnNumber, IsHigh

(* append copies the hooks of a slice whose array is full into a new array, *)
(* which ends with the new hook, and leaves the other arrays as they are.  *)
LEMMA GrownIs ==
  ASSUME SlicesOK, NEW h \in Hook
  PROVE  /\ Grown(eHooks, h) \in Seq(Hook)
         /\ eHooks.len + 1 <= Len(Grown(eHooks, h))
         /\ eHooks.len <= 1 => Len(Grown(eHooks, h)) = eHooks.len + 1
         /\ Grown(eHooks, h)[eHooks.len + 1] = h
         /\ \A i \in 1..eHooks.len : Grown(eHooks, h)[i] = arrays[eHooks.arr][i]
<1> DEFINE n == eHooks.len
           old == Hooks(eHooks)
           new == old \o <<h>>
           cap == IF n = 0 THEN 1 ELSE 2 * n
           rest == [i \in 1..(cap - Len(new)) |-> "free"]
<1>1. /\ n \in Nat /\ old \in Seq(Hook) /\ Len(old) = n
      /\ \A i \in 1..n : old[i] = arrays[eHooks.arr][i]
  <2>1. CASE eHooks.arr = 0
    BY <2>1 DEF SlicesOK, Hooks
  <2>2. CASE eHooks.arr # 0
    <3>1. arrays[eHooks.arr] \in Seq(Hook) /\ n \in Nat /\ n <= Len(arrays[eHooks.arr])
      BY <2>2 DEF SlicesOK
    <3>2. old = SubSeq(arrays[eHooks.arr], 1, n)
      BY <2>2, Zenon DEF Hooks
    <3> QED
      BY <3>1, <3>2
  <2> QED
    BY <2>1, <2>2, Zenon
<1> HIDE DEF old
<1>2. /\ new \in Seq(Hook) /\ Len(new) = n + 1 /\ new[n + 1] = h
      /\ \A i \in 1..n : new[i] = old[i]
  BY <1>1
<1>3. Grown(eHooks, h) = new \o rest
  BY Zenon DEF Grown, old
<1> HIDE DEF new
<1>4. cap \in Nat /\ cap >= n + 1 /\ (n <= 1 => cap = n + 1)
  BY <1>1
<1>5. rest \in Seq(Hook) /\ Len(rest) = cap - (n + 1)
  <2>1. cap - Len(new) = cap - (n + 1) /\ cap - (n + 1) \in Nat
    BY <1>1, <1>2, <1>4
  <2>2. "free" \in Hook
    BY Zenon DEF Hook
  <2> HIDE DEF cap
  <2> QED
    BY <2>1, <2>2
<1> HIDE DEF cap, rest
<1>6. /\ new \o rest \in Seq(Hook) /\ Len(new \o rest) = cap
      /\ \A i \in 1..(n + 1) : (new \o rest)[i] = new[i]
  <2>1. new \o rest \in Seq(Hook)
    BY <1>2, <1>5
  <2>2. Len(new \o rest) = Len(new) + Len(rest)
    BY <1>2, <1>5
  <2>3. \A i \in 1..Len(new) : (new \o rest)[i] = new[i]
    BY <1>2, <1>5
  <2>4. n + 1 + (cap - (n + 1)) = cap
    BY <1>1, <1>4
  <2> QED
    BY <1>2, <1>5, <2>1, <2>2, <2>3, <2>4, Zenon
<1>7. n + 1 \in 1..(n + 1) /\ \A i \in 1..n : i \in 1..(n + 1)
  BY <1>1
<1> QED
  BY <1>1, <1>2, <1>3, <1>4, <1>6, <1>7, Zenon

(* append gives a slice that is within its array.                          *)
LEMMA AppendedIs ==
  ASSUME SlicesOK, NEW h \in Hook
  PROVE  LET a == Appended(eHooks, h)
         IN /\ a.arrays \in Seq(Seq(Hook)) /\ Len(a.arrays) >= Len(arrays)
            /\ \A i \in 1..Len(arrays) : Len(a.arrays[i]) = Len(arrays[i])
            /\ a.slice \in [arr : 1..Len(a.arrays), len : Nat]
            /\ a.slice.len <= Len(a.arrays[a.slice.arr])
<1> DEFINE n == eHooks.len
           j == eHooks.arr
<1>1. arrays \in Seq(Seq(Hook)) /\ n \in Nat /\ j \in 0..Len(arrays)
      /\ eHooks \in [arr : 0..Len(arrays), len : Nat]
  BY DEF SlicesOK
<1>2. CASE n < Cap(eHooks)
  <2>1. j \in 1..Len(arrays) /\ n + 1 \in 1..Len(arrays[j]) /\ arrays[j] \in Seq(Hook)
    BY <1>1, <1>2 DEF Cap
  <2> DEFINE b == [arrays[j] EXCEPT ![n + 1] = h]
             as == [arrays EXCEPT ![j] = b]
  <2>2. b \in Seq(Hook) /\ Len(b) = Len(arrays[j])
    BY <2>1
  <2> HIDE DEF b
  <2>3. as \in Seq(Seq(Hook)) /\ Len(as) = Len(arrays) /\ as[j] = b
        /\ \A i \in 1..Len(arrays) : i # j => as[i] = arrays[i]
    BY <1>1, <2>1, <2>2
  <2>4. [arrays EXCEPT ![j][n + 1] = h] = as
    BY Zenon DEF b
  <2> HIDE DEF as
  <2>5. Appended(eHooks, h) = [slice |-> [eHooks EXCEPT !.len = n + 1], arrays |-> as]
    BY <1>2, <2>4, Zenon DEF Appended
  <2> DEFINE s == [eHooks EXCEPT !.len = n + 1]
             a == Appended(eHooks, h)
  <2>6. s.len = n + 1 /\ s.arr = j
    BY <1>1, Zenon
  <2>7. n + 1 \in Nat /\ j \in 1..Len(as) /\ Len(as) >= Len(arrays)
    BY <1>1, <2>1, <2>3
  <2>8. s \in [arr : 1..Len(as), len : Nat]
    BY <1>1, <2>7, Zenon
  <2>9. \A i \in 1..Len(arrays) : Len(as[i]) = Len(arrays[i])
    BY <2>2, <2>3, Zenon
  <2>10. n + 1 <= Len(arrays[j]) /\ Len(as[j]) = Len(arrays[j])
    <3>1. Len(as[j]) = Len(arrays[j])
      BY <2>1, <2>9, Zenon
    <3>2. Len(arrays[j]) \in Nat
      BY <2>1
    <3> HIDE DEF n, j
    <3>3. n + 1 <= Len(arrays[j])
      BY <1>1, <2>1, <3>2
    <3> QED
      BY <3>1, <3>3, Zenon
  <2> HIDE DEF s
  <2>11. a.slice = s /\ a.arrays = as
    <3>1. a = [slice |-> s, arrays |-> as]
      BY <2>5, Zenon DEF s
    <3> HIDE DEF a
    <3> QED
      BY <3>1
  <2> HIDE DEF a
  <2>12. s.len <= Len(as[s.arr])
    BY <2>6, <2>10, Zenon
  <2> QED
    BY <2>3, <2>7, <2>8, <2>9, <2>11, <2>12, Zenon DEF a
<1>3. CASE ~(n < Cap(eHooks))
  <2> DEFINE g == Grown(eHooks, h)
             as == Append(arrays, g)
             s == [arr |-> Len(arrays) + 1, len |-> n + 1]
  <2>1. g \in Seq(Hook) /\ n + 1 <= Len(g)
    BY GrownIs, Zenon
  <2>2. Appended(eHooks, h) = [slice |-> s, arrays |-> as]
    BY <1>3, Zenon DEF Appended
  <2> HIDE DEF g
  <2>3. as \in Seq(Seq(Hook)) /\ Len(as) = Len(arrays) + 1 /\ as[Len(arrays) + 1] = g
        /\ \A i \in 1..Len(arrays) : as[i] = arrays[i]
    BY <1>1, <2>1
  <2> HIDE DEF as
  <2>4. s \in [arr : 1..Len(as), len : Nat] /\ s.arr = Len(arrays) + 1 /\ s.len = n + 1
        /\ Len(as) >= Len(arrays)
    BY <1>1, <2>3
  <2> HIDE DEF s
  <2> DEFINE a == Appended(eHooks, h)
  <2>5. a.slice = s /\ a.arrays = as
    BY <2>2
  <2>6. \A i \in 1..Len(arrays) : Len(as[i]) = Len(arrays[i])
    BY <2>3, Zenon
  <2>7. s.len <= Len(as[s.arr])
    BY <2>1, <2>3, <2>4, Zenon
  <2> HIDE DEF a
  <2> QED
    BY <2>3, <2>4, <2>5, <2>6, <2>7, Zenon DEF a
<1> QED
  BY <1>2, <1>3, Zenon

(* At the start there are no hooks, no numbers and no channels.            *)
LEMMA OpeningInitNumbers == OpeningInit => NumberInv
<1> SUFFICES ASSUME OpeningInit PROVE NumberInv
  OBVIOUS
<1>1. 0 \in Numbers
  BY OpeningAssumption DEF Numbers
<1>2. SlicesOK
  <2>1. arrays \in Seq(Seq(Hook)) /\ 0 \in 0..Len(arrays) /\ 0 \in Nat
    BY DEF OpeningInit
  <2>2. eHooks = [arr |-> 0, len |-> 0] /\ xHooks = [x \in OpenExchanges |-> [arr |-> 0, len |-> 0]]
    BY Zenon DEF OpeningInit, NilSlice
  <2>3. eHooks \in [arr : 0..Len(arrays), len : Nat] /\ eHooks.arr = 0 /\ eHooks.len = 0
    BY <2>1, <2>2
  <2>4. xHooks \in [OpenExchanges -> [arr : Nat, len : Nat]]
    BY <2>1, <2>2
  <2> QED
    BY <2>1, <2>3, <2>4, Zenon DEF SlicesOK
<1>3. CountersOK
  BY <1>1, Zenon DEF OpeningInit, CountersOK
<1>4. OpenedOK
  <2>1. /\ opened \in Seq(OpenedChannel) /\ 1..Len(opened) = {}
        /\ openChannels = {} /\ 0 \in Nat
    BY DEF OpeningInit
  <2>2. /\ numbered \in [OpenExchanges -> [Numbers -> Nat]]
        /\ \A x \in OpenExchanges, n \in Numbers : numbered[x][n] = 0
    BY <2>1, Zenon DEF OpeningInit, Numbers
  <2>3. OwnNumbers(opened) /\ Placed(numbered, opened)
    BY <2>1, <2>2, Zenon DEF OwnNumbers, Placed
  <2> QED
    BY <2>1, <2>2, <2>3, Zenon DEF OpenedOK
<1> QED
  BY <1>2, <1>3, <1>4, Zenon DEF NumberInv, OpeningInit

(* What a step leaves alone stays in order.                                *)
LEMMA NumbersStutter ==
  /\ SlicesOK /\ UNCHANGED hookVars => SlicesOK'
  /\ CountersOK /\ UNCHANGED nextId => CountersOK'
  /\ OpenedOK /\ UNCHANGED <<opened, numbered, openChannels>> => OpenedOK'
<1>1. SlicesOK /\ UNCHANGED hookVars => SlicesOK'
  BY Zenon DEF hookVars, SlicesOK
<1>2. CountersOK /\ UNCHANGED nextId => CountersOK'
  BY Zenon DEF CountersOK, OwnNumber, IsHigh
<1>3. OpenedOK /\ UNCHANGED <<opened, numbered, openChannels>> => OpenedOK'
  BY Zenon DEF OpenedOK
<1> QED
  BY <1>1, <1>2, <1>3, Zenon

(* Hooks are registered on the endpoint, and on an exchange that starts.   *)
LEMMA RegisterNumbers ==
  ASSUME NumberInv, Register \/ \E x \in OpenExchanges : RegisterEndpoint(x)
  PROVE  NumberInv'
<1>1. UNCHANGED channelVars
  BY Zenon DEF Register, RegisterEndpoint
<1>2. SlicesOK
  BY Zenon DEF NumberInv
<1>3. CASE Register
  <2> DEFINE a == Appended(eHooks, "app")
  <2>1. eHooks' = a.slice /\ arrays' = a.arrays /\ xHooks' = xHooks
    BY <1>3, Zenon DEF Register
  <2>2. "app" \in Hook
    BY Zenon DEF Hook
  <2>3. /\ a.arrays \in Seq(Seq(Hook)) /\ a.slice \in [arr : 1..Len(a.arrays), len : Nat]
        /\ a.slice.len <= Len(a.arrays[a.slice.arr])
    BY <1>2, <2>2, AppendedIs, Zenon
  <2> HIDE DEF a
  <2>4. a.slice \in [arr : 0..Len(a.arrays), len : Nat] /\ a.slice.arr # 0
    BY <2>3
  <2> QED
    BY <1>1, <1>2, <2>1, <2>3, <2>4, NumbersStutter, Zenon DEF SlicesOK, NumberInv, channelVars
<1>4. ASSUME NEW x \in OpenExchanges, RegisterEndpoint(x) PROVE NumberInv'
  <2> DEFINE a == Appended(eHooks, x)
  <2>1. eHooks' = eHooks /\ arrays' = a.arrays /\ xHooks' = [xHooks EXCEPT ![x] = a.slice]
    BY <1>4, Zenon DEF RegisterEndpoint
  <2>2. x \in Hook
    BY Zenon DEF Hook
  <2>3. /\ a.arrays \in Seq(Seq(Hook)) /\ Len(a.arrays) >= Len(arrays)
        /\ \A i \in 1..Len(arrays) : Len(a.arrays[i]) = Len(arrays[i])
        /\ a.slice \in [arr : 1..Len(a.arrays), len : Nat]
    BY <1>2, <2>2, AppendedIs, Zenon
  <2> HIDE DEF a
  <2>4. a.slice \in [arr : Nat, len : Nat]
    BY <2>3
  <2>5. xHooks' \in [OpenExchanges -> [arr : Nat, len : Nat]]
    BY <1>2, <2>1, <2>4, Zenon DEF SlicesOK
  <2>6. eHooks \in [arr : 0..Len(a.arrays), len : Nat]
    BY <1>2, <2>3 DEF SlicesOK
  <2>7. eHooks.arr # 0 => eHooks.arr \in 1..Len(arrays)
    BY <1>2 DEF SlicesOK
  <2>8. IF eHooks.arr = 0 THEN eHooks.len = 0 ELSE eHooks.len <= Len(a.arrays[eHooks.arr])
    BY <1>2, <2>3, <2>7, Zenon DEF SlicesOK
  <2> QED
    BY <1>1, <2>1, <2>3, <2>5, <2>6, <2>8, NumbersStutter, Zenon DEF SlicesOK, NumberInv, channelVars
<1> QED
  BY <1>3, <1>4, Zenon

(* A channel that is opened has a number of its side.                      *)
LEMMA ChannelAdded ==
  ASSUME SlicesOK, OpenedOK, NEW x \in OpenExchanges, NEW s \in Sides, NEW n \in Numbers,
         n # 0, OwnNumber(x, s, n), NEW m, m = Len(opened) + 1 \/ m = numbered[x][n],
         opened' = NewChannel(x, n, s), openChannels' = openChannels \cup {Len(opened) + 1},
         numbered' = [numbered EXCEPT ![x][n] = m]
  PROVE  OpenedOK'
<1> DEFINE c == Len(opened) + 1
           r == [x |-> x, id |-> n, by |-> s, hooks |-> xHooks[x]]
<1>1. r \in OpenedChannel /\ r.x = x /\ r.id = n /\ r.by = s
  BY DEF OpenedChannel, SlicesOK
<1>2. opened' = Append(opened, r) /\ opened \in Seq(OpenedChannel)
  BY Zenon DEF NewChannel, OpenedOK
<1> HIDE DEF r
<1>3. /\ opened' \in Seq(OpenedChannel) /\ Len(opened') = c /\ opened'[c] = r
      /\ \A i \in 1..Len(opened) : opened'[i] = opened[i]
      /\ c \in Nat \ {0} /\ c \in 1..c /\ \A i \in 1..c : i \in 1..Len(opened) \/ i = c
      /\ \A i \in 1..Len(opened) : i \in 1..c
  BY <1>1, <1>2
<1> HIDE DEF c
<1> DEFINE table == [numbered EXCEPT ![x] = [numbered[x] EXCEPT ![n] = m]]
<1>4. /\ numbered \in [OpenExchanges -> [Numbers -> Nat]]
      /\ numbered' = table /\ m \in Nat
  <2>1. numbered \in [OpenExchanges -> [Numbers -> Nat]]
    BY Zenon DEF OpenedOK
  <2>2. numbered' = table
    BY Zenon
  <2>3. numbered[x][n] \in Nat
    BY <2>1, Zenon
  <2> QED
    BY <1>3, <2>1, <2>2, <2>3, Zenon DEF c
<1>5. OwnNumbers(opened')
  <2>1. OwnNumbers(opened)
    BY Zenon DEF OpenedOK
  <2>2. ASSUME NEW d \in 1..Len(opened')
        PROVE  opened'[d].id # 0 /\ OwnNumber(opened'[d].x, opened'[d].by, opened'[d].id)
    <3>1. CASE d \in 1..Len(opened)
      BY <1>3, <2>1, <3>1, Zenon DEF OwnNumbers
    <3>2. CASE d = c
      BY <1>1, <1>3, <3>2, Zenon
    <3> QED
      BY <1>3, <2>2, <3>1, <3>2, Zenon
  <2> QED
    BY <2>2, Zenon DEF OwnNumbers
<1>6. table \in [OpenExchanges -> [Numbers -> Nat]]
  BY <1>4, Zenon
<1>7. \A y \in OpenExchanges, k \in Numbers :
        table[y][k] = numbered[y][k] \/ (y = x /\ k = n /\ table[y][k] = c)
  BY <1>4, Zenon DEF c
<1> HIDE DEF table
<1>8. ASSUME NEW y \in OpenExchanges, NEW k \in Numbers, table[y][k] # 0
      PROVE  /\ table[y][k] \in 1..Len(opened')
             /\ opened'[table[y][k]].x = y /\ opened'[table[y][k]].id = k
  <2>1. CASE table[y][k] = numbered[y][k]
    <3>1. /\ numbered[y][k] \in 1..Len(opened)
          /\ opened[numbered[y][k]].x = y /\ opened[numbered[y][k]].id = k
      BY <1>8, <2>1, Zenon DEF OpenedOK, Placed
    <3> QED
      BY <1>3, <2>1, <3>1, Zenon
  <2>2. CASE y = x /\ k = n /\ table[y][k] = c
    BY <1>1, <1>3, <2>2, Zenon
  <2> QED
    BY <1>7, <2>1, <2>2, Zenon
<1>9. Placed(table, opened')
  BY <1>8, Zenon DEF Placed
<1>10. openChannels' \subseteq 1..Len(opened')
  BY <1>3, Zenon DEF OpenedOK, c
<1> QED
  BY <1>3, <1>4, <1>5, <1>6, <1>9, <1>10, Zenon DEF OpenedOK

(* Open takes a number of the endpoint's.                                  *)
LEMMA OpenNumbers ==
  ASSUME NumberInv, NEW x \in OpenExchanges, OpenChannel(x)
  PROVE  NumberInv'
<1> DEFINE n == Number(x, "local")
           c == Len(opened) + 1
           m == IF numbered[x][n] = 0 THEN c ELSE numbered[x][n]
<1>1. /\ Took(x, "local", n) /\ opened' = NewChannel(x, n, "local")
      /\ openChannels' = openChannels \cup {c} /\ UNCHANGED <<hookVars, mixed>>
      /\ numbered' = [numbered EXCEPT ![x][n] = m]
  BY Zenon DEF OpenChannel
<1>2. SlicesOK /\ CountersOK /\ OpenedOK /\ "local" \in Sides
  BY Zenon DEF NumberInv, Sides
<1>3. n \in Numbers /\ n # 0 /\ OwnNumber(x, "local", n)
  BY <1>2, NumberIs, Zenon
<1>4. CountersOK'
  BY <1>1, <1>2, TookKeeps, Zenon
<1>5. m = c \/ m = numbered[x][n]
  BY Zenon
<1> HIDE DEF n, m
<1>6. OpenedOK'
  BY <1>1, <1>2, <1>3, <1>5, ChannelAdded, Zenon
<1>7. SlicesOK'
  BY <1>1, <1>2, NumbersStutter, Zenon
<1> QED
  BY <1>1, <1>4, <1>6, <1>7, Zenon DEF NumberInv

(* A first packet of the peer's has a number of the peer's: a channel that *)
(* has it is one that the peer has opened.                                 *)
LEMMA PeerOpensNumbers ==
  ASSUME NumberInv, NEW x \in OpenExchanges, NEW typ \in Types, PeerOpens(x, typ)
  PROVE  NumberInv'
<1> DEFINE n == Number(x, "peer")
           c == Len(opened) + 1
<1>1. Took(x, "peer", n) /\ UNCHANGED hookVars
  BY Zenon DEF PeerOpens
<1>2. SlicesOK /\ CountersOK /\ OpenedOK /\ "peer" \in Sides /\ ~mixed
  BY Zenon DEF NumberInv, Sides
<1>3. n \in Numbers /\ n # 0 /\ OwnNumber(x, "peer", n)
  BY <1>2, NumberIs, Zenon
<1>4. CountersOK' /\ SlicesOK'
  BY <1>1, <1>2, TookKeeps, NumbersStutter, Zenon
<1>5. CASE /\ numbered[x][n] # 0
           /\ mixed' = (mixed \/ opened[numbered[x][n]].by = "local")
           /\ UNCHANGED <<opened, openChannels, numbered>>
  <2> DEFINE d == numbered[x][n]
  <2>1. d \in 1..Len(opened) /\ opened[d].x = x /\ opened[d].id = n
    BY <1>2, <1>3, <1>5, Zenon DEF OpenedOK, Placed
  <2>2. OwnNumber(x, opened[d].by, n)
    BY <1>2, <2>1, Zenon DEF OpenedOK, OwnNumbers
  <2>3. opened[d].by # "local"
    <3>1. n \in Nat
      BY <1>3, OpeningAssumption DEF Numbers
    <3> QED
      BY <1>3, <2>2, <3>1, SidesDiffer, Zenon
  <2> QED
    BY <1>2, <1>4, <1>5, <2>3, NumbersStutter, Zenon DEF NumberInv
<1>6. CASE UNCHANGED <<opened, openChannels, numbered, mixed>>
  BY <1>2, <1>4, <1>6, NumbersStutter, Zenon DEF NumberInv
<1>7. CASE /\ opened' = NewChannel(x, n, "peer") /\ openChannels' = openChannels \cup {c}
           /\ numbered' = [numbered EXCEPT ![x][n] = c] /\ UNCHANGED mixed
  <2>1. OpenedOK'
    BY <1>2, <1>3, <1>7, ChannelAdded, Zenon
  <2> QED
    BY <1>2, <1>4, <1>7, <2>1, Zenon DEF NumberInv
<1> QED
  BY <1>5, <1>6, <1>7, Zenon DEF PeerOpens

(* unregisterChannel leaves nothing under the number of a channel, in the  *)
(* sets of the exchanges whose hooks have run.                             *)
Cleaned(t, hs, k) ==
  /\ t \in [OpenExchanges -> [Numbers -> Nat]]
  /\ \A x \in OpenExchanges, n \in Numbers :
       t[x][n] = IF x \in Range(hs) /\ n = k THEN 0 ELSE numbered[x][n]

(* That is what unregisterChannel does.                                    *)
LEMMA UnregisteredIs ==
  ASSUME OpenedOK, NEW k, NEW hs
  PROVE  Cleaned(Unregistered(numbered, hs, k), hs, k)
<1> DEFINE table == [x \in OpenExchanges |->
                       IF x \in Range(hs) THEN [numbered[x] EXCEPT ![k] = 0] ELSE numbered[x]]
<1>1. numbered \in [OpenExchanges -> [Numbers -> Nat]]
  BY Zenon DEF OpenedOK
<1>2. \A x \in OpenExchanges : [numbered[x] EXCEPT ![k] = 0] \in [Numbers -> Nat]
  <2>1. 0 \in Nat
    OBVIOUS
  <2> QED
    BY <1>1, <2>1, Zenon
<1>3. table \in [OpenExchanges -> [Numbers -> Nat]]
  BY <1>1, <1>2, Zenon
<1>4. \A x \in OpenExchanges, n \in Numbers :
        table[x][n] = IF x \in Range(hs) /\ n = k THEN 0 ELSE numbered[x][n]
  BY <1>1, Zenon
<1>5. Unregistered(numbered, hs, k) = table
  BY Zenon DEF Unregistered
<1> HIDE DEF table
<1> QED
  BY <1>3, <1>4, <1>5, Zenon DEF Cleaned

(* A channel that closes leaves the sets of the exchanges whose hooks run. *)
LEMMA CloseNumbers ==
  ASSUME NumberInv, NEW c \in openChannels, CloseChannel(c)
  PROVE  NumberInv'
<1>1. OpenedOK /\ SlicesOK /\ CountersOK /\ c \in 1..Len(opened)
  BY Zenon DEF NumberInv, OpenedOK
<1>2. PICK hs : numbered' = Unregistered(numbered, hs, opened[c].id)
  BY Zenon DEF CloseChannel, Trigger
<1>3. openChannels' = openChannels \ {c} /\ UNCHANGED <<hookVars, nextId, opened, mixed>>
  BY Zenon DEF CloseChannel
<1>4. /\ numbered' \in [OpenExchanges -> [Numbers -> Nat]]
      /\ \A x \in OpenExchanges, n \in Numbers :
           numbered'[x][n] = 0 \/ numbered'[x][n] = numbered[x][n]
  <2>1. Cleaned(numbered', hs, opened[c].id)
    BY <1>1, <1>2, UnregisteredIs, Zenon
  <2> QED
    BY <2>1, Zenon DEF Cleaned
<1>5. Placed(numbered, opened)
  BY <1>1, Zenon DEF OpenedOK
<1>6. Placed(numbered', opened)
  <2> SUFFICES ASSUME NEW x \in OpenExchanges, NEW n \in Numbers, numbered'[x][n] # 0
               PROVE  /\ numbered'[x][n] \in 1..Len(opened)
                      /\ opened[numbered'[x][n]].x = x /\ opened[numbered'[x][n]].id = n
    BY Zenon DEF Placed
  <2> DEFINE d == numbered[x][n]
  <2>1. numbered'[x][n] = d /\ d # 0
    BY <1>4, Zenon
  <2>2. d \in 1..Len(opened) /\ opened[d].x = x /\ opened[d].id = n
    BY <1>5, <2>1, Zenon DEF Placed
  <2> QED
    BY <2>1, <2>2, Zenon
<1>7. OpenedOK'
  BY <1>1, <1>3, <1>4, <1>6, Zenon DEF OpenedOK
<1> QED
  BY <1>1, <1>3, <1>7, NumbersStutter, Zenon DEF NumberInv

(* Every step keeps the numbers apart.                                     *)
LEMMA NumbersStepInv == NumberInv /\ [OpeningNext]_openingVars => NumberInv'
<1> SUFFICES ASSUME NumberInv, [OpeningNext]_openingVars PROVE NumberInv'
  OBVIOUS
<1>1. ASSUME UNCHANGED <<hookVars, channelVars>> PROVE NumberInv'
  BY <1>1, NumbersStutter, Zenon DEF NumberInv, channelVars
<1>2. CASE UNCHANGED openingVars
  BY <1>1, <1>2, Zenon DEF openingVars
<1>3. ASSUME NEW typ \in Types, Listen(typ) \/ RemoveListener(typ) PROVE NumberInv'
  BY <1>1, <1>3, Zenon DEF Listen, RemoveListener
<1> QED
  BY <1>2, <1>3, RegisterNumbers, OpenNumbers, PeerOpensNumbers, CloseNumbers, Zenon DEF OpeningNext

(* The two sides never give a channel the same number, and none gives zero, *)
(* for every number of hooks, however often the numbers start again         *)
(* (exchange.go, getNextChannelID, Open, receivedPacket).                   *)
THEOREM SidesNumberApart == OpeningSpec => []NumbersAreApart
<1>1. NumberInv => NumbersAreApart
  BY Zenon DEF NumberInv, OpenedOK, OwnNumbers, NumbersAreApart
<1> QED
  BY <1>1, OpeningInitNumbers, NumbersStepInv, PTL DEF OpeningSpec

(* append to the endpoint's slice, which fills its array, makes a new      *)
(* array.                                                                  *)
AppendsNew(a, h) ==
  LET new == Len(arrays) + 1
  IN /\ a.arrays \in Seq(Seq(Hook)) /\ Len(a.arrays) = new
     /\ \A i \in 1..Len(arrays) : a.arrays[i] = arrays[i]
     /\ a.slice = [arr |-> new, len |-> eHooks.len + 1]
     /\ eHooks.len + 1 \in 1..Len(a.arrays[new]) /\ a.arrays[new][eHooks.len + 1] = h
     /\ \A i \in 1..eHooks.len : a.arrays[new][i] = "app"
     /\ eHooks.len <= 1 => Len(a.arrays[new]) = eHooks.len + 1

(* So append is when it is full.                                           *)
LEMMA AppendedInNew ==
  ASSUME SlicesOK, Filled(arrays, eHooks), NEW h \in Hook
  PROVE  AppendsNew(Appended(eHooks, h), h)
<1> DEFINE n == eHooks.len
           j == eHooks.arr
           new == Len(arrays) + 1
           g == Grown(eHooks, h)
           as == Append(arrays, g)
           s == [arr |-> new, len |-> n + 1]
           a == Appended(eHooks, h)
<1>1. arrays \in Seq(Seq(Hook)) /\ n \in Nat /\ (j = 0 => n = 0)
  BY DEF SlicesOK
<1>2. ~(n < Cap(eHooks))
  <2>1. Cap(eHooks) = n
    BY <1>1, Zenon DEF Cap, Filled
  <2> QED
    BY <1>1, <2>1
<1>3. /\ g \in Seq(Hook) /\ n + 1 <= Len(g) /\ g[n + 1] = h
      /\ n <= 1 => Len(g) = n + 1
      /\ \A i \in 1..n : g[i] = arrays[j][i]
  BY GrownIs, Zenon
<1>4. a = [slice |-> s, arrays |-> as]
  BY <1>2, Zenon DEF Appended
<1>5. \A i \in 1..n : g[i] = "app"
  <2>1. CASE j = 0
    BY <1>1, <2>1
  <2>2. CASE j # 0
    BY <1>3, <2>2, Zenon DEF Filled
  <2> QED
    BY <2>1, <2>2, Zenon
<1> HIDE DEF g, a, s
<1>6. /\ as \in Seq(Seq(Hook)) /\ Len(as) = new /\ as[new] = g
      /\ \A i \in 1..Len(arrays) : as[i] = arrays[i]
      /\ n + 1 \in 1..Len(g)
  BY <1>1, <1>3
<1> HIDE DEF as
<1>7. a.slice = s /\ a.arrays = as
  BY <1>4
<1>8. AppendsNew(a, h)
  BY <1>3, <1>5, <1>6, <1>7, Zenon DEF AppendsNew, s
<1> QED
  BY <1>8, Zenon DEF a

(* The slices of exchanges are not written when an array is added.         *)
LEMMA SlicesStay ==
  ASSUME NEW as, NEW bs, NEW xs, ExchangeHooks(as, xs), Len(as) \in Nat, Len(bs) = Len(as) + 1,
         \A i \in 1..Len(as) : bs[i] = as[i]
  PROVE  ExchangeHooks(bs, xs)
<1> SUFFICES ASSUME NEW x \in OpenExchanges, xs[x] # NilSlice PROVE EndsWith(bs, xs[x], x)
  BY Zenon DEF ExchangeHooks
<1>1. EndsWith(as, xs[x], x)
  BY Zenon DEF ExchangeHooks
<1>2. xs[x].arr \in 1..Len(as)
  BY <1>1, Zenon DEF EndsWith
<1>3. \A i \in 1..Len(as) : i \in 1..Len(bs)
  <2>1. \A l \in Nat : \A i \in 1..l : i \in 1..(l + 1)
    OBVIOUS
  <2> QED
    BY <2>1, Zenon
<1>4. xs[x].arr \in 1..Len(bs) /\ bs[xs[x].arr] = as[xs[x].arr]
  BY <1>2, <1>3, Zenon
<1> QED
  BY <1>1, <1>4, Zenon DEF EndsWith

(* Hooks of the application fill arrays of their own, up to two.           *)
LEMMA RegisterHooks ==
  ASSUME MaxHooks <= 2, NumberInv, HooksOK, Register
  PROVE  HooksOK'
<1> DEFINE a == Appended(eHooks, "app")
           n == eHooks.len
           new == Len(arrays) + 1
<1>1. /\ eHooks' = a.slice /\ arrays' = a.arrays /\ UNCHANGED <<xHooks, opened>>
      /\ n < MaxHooks
  BY Zenon DEF Register, channelVars
<1>2. AppendsNew(a, "app")
  <2>1. "app" \in Hook
    BY Zenon DEF Hook
  <2> QED
    BY <2>1, AppendedInNew, Zenon DEF NumberInv, HooksOK
<1>3. n \in Nat /\ Len(arrays) \in Nat
  BY DEF NumberInv, SlicesOK
<1>4. n + 1 <= 2 /\ n <= 1 /\ \A i \in 1..(n + 1) : i \in 1..n \/ i = n + 1
  BY <1>1, <1>3, OpeningAssumption
<1> HIDE DEF a
<1>5. eHooks'.arr = new /\ eHooks'.len = n + 1
  <2>1. eHooks' = [arr |-> new, len |-> n + 1]
    BY <1>1, <1>2, Zenon DEF AppendsNew
  <2> QED
    BY <2>1
<1>6. Len(a.arrays[new]) = n + 1 /\ \A i \in 1..(n + 1) : a.arrays[new][i] = "app"
  BY <1>2, <1>4, Zenon DEF AppendsNew
<1>7. Filled(arrays', eHooks')
  BY <1>1, <1>4, <1>5, <1>6, Zenon DEF Filled
<1>8. ExchangeHooks(arrays', xHooks)
  BY <1>1, <1>2, <1>3, SlicesStay, Zenon DEF HooksOK, AppendsNew
<1> QED
  BY <1>1, <1>7, <1>8, Zenon DEF HooksOK

(* An exchange that starts has its hook behind those of the application.   *)
LEMMA RegisterEndpointHooks ==
  ASSUME NumberInv, HooksOK, NEW x \in OpenExchanges, RegisterEndpoint(x)
  PROVE  HooksOK'
<1> DEFINE a == Appended(eHooks, x)
           n == eHooks.len
           new == Len(arrays) + 1
<1>1. /\ xHooks' = [xHooks EXCEPT ![x] = a.slice] /\ arrays' = a.arrays
      /\ UNCHANGED <<eHooks, opened>> /\ xHooks[x] = NilSlice
  BY Zenon DEF RegisterEndpoint, channelVars
<1>2. AppendsNew(a, x)
  <2>1. x \in Hook
    BY Zenon DEF Hook
  <2> QED
    BY <2>1, AppendedInNew, Zenon DEF NumberInv, HooksOK
<1>3. /\ n \in Nat /\ Len(arrays) \in Nat /\ new \in 1..new /\ n + 1 - 1 = n
      /\ eHooks.arr # 0 => eHooks.arr \in 1..Len(arrays)
      /\ xHooks \in [OpenExchanges -> [arr : Nat, len : Nat]]
  BY DEF NumberInv, SlicesOK
<1> HIDE DEF a
<1>4. a.slice.arr = new /\ a.slice.len = n + 1 /\ a.slice.len - 1 = n
  <2>1. a.slice = [arr |-> new, len |-> n + 1]
    BY <1>2, Zenon DEF AppendsNew
  <2> QED
    BY <1>3, <2>1
<1>5. EndsWith(a.arrays, a.slice, x)
  <2>1. /\ Len(a.arrays) = new /\ n + 1 \in 1..Len(a.arrays[new]) /\ a.arrays[new][n + 1] = x
        /\ \A i \in 1..n : a.arrays[new][i] = "app"
    BY <1>2, Zenon DEF AppendsNew
  <2>2. a.slice.arr \in 1..Len(a.arrays)
    BY <1>3, <1>4, <2>1, Zenon
  <2>3. a.slice.len \in 1..Len(a.arrays[a.slice.arr]) /\ a.arrays[a.slice.arr][a.slice.len] = x
    BY <1>4, <2>1, Zenon
  <2>4. \A i \in 1..(a.slice.len - 1) : a.arrays[a.slice.arr][i] = "app"
    BY <1>4, <2>1, Zenon
  <2> QED
    BY <2>2, <2>3, <2>4, Zenon DEF EndsWith
<1>6. Filled(arrays', eHooks')
  BY <1>1, <1>2, <1>3, Zenon DEF HooksOK, Filled, AppendsNew
<1>7. ExchangeHooks(a.arrays, xHooks)
  BY <1>2, <1>3, SlicesStay, Zenon DEF HooksOK, AppendsNew
<1>8. \A y \in OpenExchanges : xHooks'[y] = IF y = x THEN a.slice ELSE xHooks[y]
  BY <1>1, <1>3, Zenon
<1>9. ExchangeHooks(arrays', xHooks')
  BY <1>1, <1>5, <1>7, <1>8, Zenon DEF ExchangeHooks
<1>10. ChannelHooks(opened, xHooks')
  <2> SUFFICES ASSUME NEW c \in 1..Len(opened)
               PROVE  opened[c].hooks = xHooks'[opened[c].x] /\ opened[c].hooks # NilSlice
    BY Zenon DEF ChannelHooks
  <2>1. opened[c].hooks = xHooks[opened[c].x] /\ opened[c].hooks # NilSlice
    BY Zenon DEF HooksOK, ChannelHooks
  <2>2. opened[c] \in OpenedChannel
    BY DEF NumberInv, OpenedOK
  <2>3. opened[c].x \in OpenExchanges
    BY <2>2 DEF OpenedChannel
  <2> QED
    BY <1>1, <1>8, <2>1, <2>3, Zenon
<1> QED
  BY <1>1, <1>6, <1>9, <1>10, Zenon DEF HooksOK

(* A new channel is behind the others, with the slice of its exchange.     *)
IsAdded(cs, x, n) ==
  LET c == Len(opened) + 1
  IN /\ Len(cs) = c /\ cs[c].x = x /\ cs[c].id = n /\ cs[c].hooks = xHooks[x]
     /\ \A i \in 1..Len(opened) : cs[i] = opened[i] /\ i # c
     /\ \A i \in 1..c : i \in 1..Len(opened) \/ i = c

(* So newChannel makes it.                                                 *)
LEMMA NewChannelIs ==
  ASSUME SlicesOK, OpenedOK, NEW x \in OpenExchanges, NEW s \in Sides, NEW n \in Numbers
  PROVE  IsAdded(NewChannel(x, n, s), x, n)
<1> DEFINE c == Len(opened) + 1
           r == [x |-> x, id |-> n, by |-> s, hooks |-> xHooks[x]]
           cs == NewChannel(x, n, s)
<1>1. r \in OpenedChannel /\ r.x = x /\ r.id = n /\ r.hooks = xHooks[x]
  BY DEF OpenedChannel, SlicesOK
<1>2. cs = Append(opened, r) /\ opened \in Seq(OpenedChannel)
  BY Zenon DEF NewChannel, OpenedOK
<1> HIDE DEF r, cs
<1>3. /\ Len(cs) = c /\ cs[c] = r
      /\ \A i \in 1..Len(opened) : cs[i] = opened[i] /\ i # c
      /\ \A i \in 1..c : i \in 1..Len(opened) \/ i = c
  BY <1>1, <1>2
<1>4. IsAdded(cs, x, n)
  BY <1>1, <1>3, Zenon DEF IsAdded
<1> QED
  BY <1>4, Zenon DEF cs

(* It has the hooks of its exchange.                                       *)
LEMMA AddedHooks ==
  ASSUME HooksOK, NEW x, NEW n, xHooks[x] # NilSlice, IsAdded(opened', x, n), UNCHANGED hookVars
  PROVE  HooksOK'
<1>1. UNCHANGED <<arrays, eHooks, xHooks>>
  BY Zenon DEF hookVars
<1>2. ChannelHooks(opened', xHooks)
  BY Zenon DEF IsAdded, HooksOK, ChannelHooks
<1> QED
  BY <1>1, <1>2, Zenon DEF HooksOK

(* Under a number that nothing has, it is the one of its number.           *)
LEMMA AddedCurrent ==
  ASSUME OpenedOK, Current(numbered, opened, openChannels),
         NEW x \in OpenExchanges, NEW n \in Numbers, numbered[x][n] = 0,
         IsAdded(opened', x, n), openChannels' = openChannels \cup {Len(opened) + 1},
         numbered' = [numbered EXCEPT ![x][n] = Len(opened) + 1]
  PROVE  Current(numbered', opened', openChannels')
<1> DEFINE c == Len(opened) + 1
<1>1. /\ numbered \in [OpenExchanges -> [Numbers -> Nat]]
      /\ opened \in Seq(OpenedChannel)
  BY Zenon DEF OpenedOK
<1> HIDE DEF c
<1>2. numbered' = [numbered EXCEPT ![x] = [numbered[x] EXCEPT ![n] = c]]
  BY Zenon DEF c
<1>3. /\ numbered'[x][n] = c
      /\ \A y \in OpenExchanges, k \in Numbers :
           ~(y = x /\ k = n) => numbered'[y][k] = numbered[y][k]
  <2> DEFINE row == [numbered[x] EXCEPT ![n] = c]
  <2>1. row[n] = c /\ \A k \in Numbers : k # n => row[k] = numbered[x][k]
    BY <1>1, Zenon
  <2> HIDE DEF row
  <2>2. numbered'[x] = row /\ \A y \in OpenExchanges : y # x => numbered'[y] = numbered[y]
    <3>1. numbered' = [numbered EXCEPT ![x] = row]
      BY <1>2, Zenon DEF row
    <3> QED
      BY <1>1, <3>1, Zenon
  <2>3. ASSUME NEW y \in OpenExchanges, NEW k \in Numbers, ~(y = x /\ k = n)
        PROVE  numbered'[y][k] = numbered[y][k]
    BY <2>1, <2>2, <2>3, Zenon
  <2> QED
    BY <2>1, <2>2, <2>3, Zenon
<1>4. \A d \in 1..Len(opened) :
        opened[d].x \in OpenExchanges /\ opened[d].id \in Numbers /\ d # 0
  <2> SUFFICES ASSUME NEW d \in 1..Len(opened)
               PROVE  opened[d].x \in OpenExchanges /\ opened[d].id \in Numbers /\ d # 0
    OBVIOUS
  <2>1. opened[d] \in OpenedChannel /\ d # 0
    BY <1>1
  <2> QED
    BY <2>1 DEF OpenedChannel
<1>5. /\ opened'[c].x = x /\ opened'[c].id = n /\ Len(opened') = c
      /\ \A d \in 1..Len(opened) : opened'[d] = opened[d] /\ d # c
      /\ \A d \in 1..c : d \in 1..Len(opened) \/ d = c
  BY Zenon DEF IsAdded, c
<1>6. ASSUME NEW d \in 1..Len(opened)
      PROVE  (numbered'[opened'[d].x][opened'[d].id] = d) <=> (d \in openChannels')
  <2>1. (numbered[opened[d].x][opened[d].id] = d) <=> (d \in openChannels)
    BY <1>6, Zenon DEF Current
  <2>2. d # 0 /\ d # c /\ opened'[d] = opened[d]
    BY <1>4, <1>5, <1>6, Zenon
  <2>3. (d \in openChannels') <=> (d \in openChannels)
    BY <2>2, Zenon DEF c
  <2>4. CASE opened[d].x = x /\ opened[d].id = n
    <3>1. numbered'[opened[d].x][opened[d].id] = c
      BY <1>3, <2>4, Zenon
    <3> QED
      BY <2>1, <2>2, <2>3, <2>4, <3>1, Zenon
  <2>5. CASE ~(opened[d].x = x /\ opened[d].id = n)
    <3>1. numbered'[opened[d].x][opened[d].id] = numbered[opened[d].x][opened[d].id]
      BY <1>3, <1>4, <1>6, <2>5, Zenon
    <3> QED
      BY <2>1, <2>2, <2>3, <3>1, Zenon
  <2> QED
    BY <2>4, <2>5, Zenon
<1>7. (numbered'[opened'[c].x][opened'[c].id] = c) <=> (c \in openChannels')
  BY <1>3, <1>5, Zenon DEF c
<1>8. ASSUME NEW d \in 1..Len(opened')
      PROVE  (numbered'[opened'[d].x][opened'[d].id] = d) <=> (d \in openChannels')
  <2>1. d \in 1..Len(opened) \/ d = c
    BY <1>5, <1>8, Zenon
  <2> QED
    BY <1>6, <1>7, <2>1, Zenon
<1> QED
  BY <1>8, Zenon DEF Current

(* Open, with a number that has not come round to an open channel.         *)
LEMMA OpenCurrent ==
  ASSUME OpeningInv, NEW x \in OpenExchanges, OpenChannel(x)
  PROVE  HooksOK' /\ CurrentOK'
<1> DEFINE n == Number(x, "local")
           c == Len(opened) + 1
           m == IF numbered[x][n] = 0 THEN c ELSE numbered[x][n]
<1>1. /\ opened' = NewChannel(x, n, "local") /\ xHooks[x] # NilSlice
      /\ openChannels' = openChannels \cup {c} /\ UNCHANGED <<hookVars, stopped>>
      /\ numbered' = [numbered EXCEPT ![x][n] = m]
      /\ outlived' = (outlived \/ numbered[x][n] # 0)
  BY Zenon DEF OpenChannel
<1>2. SlicesOK /\ CountersOK /\ OpenedOK /\ HooksOK /\ CurrentOK /\ "local" \in Sides
  BY Zenon DEF OpeningInv, NumberInv, Sides
<1>3. n \in Numbers
  BY <1>2, NumberIs, Zenon
<1> HIDE DEF n
<1>4. IsAdded(opened', x, n)
  BY <1>1, <1>2, <1>3, NewChannelIs, Zenon
<1>5. HooksOK'
  BY <1>1, <1>2, <1>4, AddedHooks, Zenon
<1>6. ASSUME ~outlived', stopped' = {} PROVE Current(numbered', opened', openChannels')
  <2>1. numbered[x][n] = 0 /\ ~outlived /\ stopped = {}
    BY <1>1, <1>6, Zenon
  <2>2. Current(numbered, opened, openChannels)
    BY <1>2, <2>1, Zenon DEF CurrentOK
  <2>3. numbered' = [numbered EXCEPT ![x][n] = c]
    BY <1>1, <2>1, Zenon
  <2> QED
    BY <1>1, <1>2, <1>3, <1>4, <2>1, <2>2, <2>3, AddedCurrent, Zenon
<1> QED
  BY <1>5, <1>6, Zenon DEF CurrentOK

(* A first packet of the peer's, likewise.                                 *)
LEMMA PeerOpensCurrent ==
  ASSUME OpeningInv, NEW x \in OpenExchanges, NEW typ \in Types, PeerOpens(x, typ)
  PROVE  HooksOK' /\ CurrentOK'
<1> DEFINE n == Number(x, "peer")
           c == Len(opened) + 1
<1>1. xHooks[x] # NilSlice /\ UNCHANGED <<hookVars, stopped>>
  BY Zenon DEF PeerOpens
<1>2. SlicesOK /\ CountersOK /\ OpenedOK /\ HooksOK /\ CurrentOK /\ "peer" \in Sides
  BY Zenon DEF OpeningInv, NumberInv, Sides
<1>3. n \in Numbers
  BY <1>2, NumberIs, Zenon
<1> HIDE DEF n
<1>4. CASE UNCHANGED <<opened, openChannels, numbered>> /\ (~outlived' => ~outlived)
  <2>1. HooksOK'
    BY <1>1, <1>2, <1>4, Zenon DEF HooksOK, hookVars
  <2>2. CurrentOK'
    BY <1>1, <1>2, <1>4, Zenon DEF CurrentOK
  <2> QED
    BY <2>1, <2>2
<1>5. CASE /\ numbered[x][n] = 0 /\ opened' = NewChannel(x, n, "peer") /\ UNCHANGED outlived
           /\ openChannels' = openChannels \cup {c} /\ numbered' = [numbered EXCEPT ![x][n] = c]
  <2>1. IsAdded(opened', x, n)
    BY <1>2, <1>3, <1>5, NewChannelIs, Zenon
  <2>2. HooksOK'
    BY <1>1, <1>2, <2>1, AddedHooks, Zenon
  <2>3. ASSUME ~outlived', stopped' = {} PROVE Current(numbered', opened', openChannels')
    <3>1. Current(numbered, opened, openChannels)
      BY <1>1, <1>2, <1>5, <2>3, Zenon DEF CurrentOK
    <3> QED
      BY <1>2, <1>3, <1>5, <2>1, <3>1, AddedCurrent, Zenon
  <2> QED
    BY <2>2, <2>3, Zenon DEF CurrentOK
<1>6. \/ UNCHANGED <<opened, openChannels, numbered>> /\ (~outlived' => ~outlived)
      \/ /\ numbered[x][n] = 0 /\ opened' = NewChannel(x, n, "peer") /\ UNCHANGED outlived
         /\ openChannels' = openChannels \cup {c} /\ numbered' = [numbered EXCEPT ![x][n] = c]
  BY Zenon DEF PeerOpens, n
<1> QED
  BY <1>4, <1>5, <1>6, Zenon

(* A prefix of a sequence.                                                 *)
LEMMA Prefix ==
  ASSUME NEW S, NEW f \in Seq(S), NEW l \in 1..Len(f)
  PROVE  /\ SubSeq(f, 1, l) \in Seq(S) /\ Len(SubSeq(f, 1, l)) = l
         /\ DOMAIN SubSeq(f, 1, l) = 1..l /\ \A i \in 1..l : SubSeq(f, 1, l)[i] = f[i]
         /\ l \in 1..l /\ \A i \in 1..l : i = l \/ i \in 1..(l - 1)
  OBVIOUS

(* Of the exchanges, only its own has a hook in the slice of one.          *)
LEMMA OnlyItsOwn ==
  ASSUME arrays \in Seq(Seq(Hook)), NEW x \in OpenExchanges, NEW s, EndsWith(arrays, s, x)
  PROVE  \A y \in OpenExchanges : (y \in Range(SubSeq(Hooks(s), 1, Len(Hooks(s))))) <=> (y = x)
<1> DEFINE as == arrays[s.arr]
           l == s.len
           hs == Hooks(s)
           run == SubSeq(hs, 1, Len(hs))
<1>1. /\ s.arr \in 1..Len(arrays) /\ l \in 1..Len(as) /\ as[l] = x
      /\ \A i \in 1..(l - 1) : as[i] = "app"
  BY Zenon DEF EndsWith
<1>2. as \in Seq(Hook) /\ s.arr # 0
  <2>1. \A i \in 1..Len(arrays) : arrays[i] \in Seq(Hook) /\ i # 0
    OBVIOUS
  <2> QED
    BY <1>1, <2>1, Zenon
<1>3. hs = SubSeq(as, 1, l)
  BY <1>2, Zenon DEF Hooks
<1> HIDE DEF hs, as, l
<1>4. hs \in Seq(Hook) /\ Len(hs) = l /\ \A i \in 1..l : hs[i] = as[i]
  <2>1. l \in 1..Len(as) /\ as \in Seq(Hook)
    BY <1>1, <1>2, Zenon
  <2>2. /\ SubSeq(as, 1, l) \in Seq(Hook) /\ Len(SubSeq(as, 1, l)) = l
        /\ \A i \in 1..l : SubSeq(as, 1, l)[i] = as[i]
    BY ONLY <2>1, Prefix, Zenon
  <2> QED
    BY ONLY <1>3, <2>2, Zenon
<1>5. l \in 1..l /\ \A i \in 1..l : i = l \/ i \in 1..(l - 1)
  BY <1>1, <1>2, Prefix, Zenon
<1>6. DOMAIN run = 1..l /\ \A i \in 1..l : run[i] = hs[i]
  <2>1. run = SubSeq(hs, 1, l)
    BY <1>4, Zenon
  <2>2. hs \in Seq(Hook) /\ l \in 1..Len(hs)
    BY <1>4, <1>5, Zenon
  <2>3. DOMAIN SubSeq(hs, 1, l) = 1..l /\ \A i \in 1..l : SubSeq(hs, 1, l)[i] = hs[i]
    BY ONLY <2>2, Prefix, Zenon
  <2> HIDE DEF run
  <2> QED
    BY ONLY <2>1, <2>3, Zenon
<1> HIDE DEF run
<1>7. \A i \in 1..l : run[i] = "app" \/ run[i] = x
  BY <1>1, <1>4, <1>5, <1>6, Zenon
<1>8. \A y : y \in Range(run) <=> \E i \in 1..l : y = run[i]
  BY <1>6, Zenon DEF Range
<1>9. run[l] = x
  <2>1. run[l] = hs[l] /\ hs[l] = as[l] /\ as[l] = x
    BY <1>1, <1>4, <1>5, <1>6, Zenon
  <2> QED
    BY ONLY <2>1, Zenon
<1>10. \A y \in OpenExchanges : y # "app"
  BY OpeningAssumption, Zenon
<1>11. \A y \in OpenExchanges : (y \in Range(run)) <=> (y = x)
  BY <1>5, <1>7, <1>8, <1>9, <1>10, Zenon
<1> QED
  BY <1>11, Zenon DEF run, hs

(* A channel that closes, and whose hooks all run, leaves the set of its   *)
(* own exchange, and no other channel does.                                *)
LEMMA CloseCurrent ==
  ASSUME OpeningInv, NEW c \in openChannels, CloseChannel(c)
  PROVE  HooksOK' /\ CurrentOK'
<1> DEFINE hooks == Hooks(opened[c].hooks)
           hs == SubSeq(hooks, 1, Len(hooks))
           x == opened[c].x
           k == opened[c].id
<1>1. /\ SlicesOK /\ OpenedOK /\ HooksOK /\ CurrentOK /\ c \in 1..Len(opened)
      /\ opened \in Seq(OpenedChannel)
  BY Zenon DEF OpeningInv, NumberInv, OpenedOK
<1>2. openChannels' = openChannels \ {c} /\ UNCHANGED <<hookVars, opened, outlived>>
  BY Zenon DEF CloseChannel
<1>3. HooksOK'
  BY <1>1, <1>2, Zenon DEF HooksOK, hookVars
<1>4. \A d \in 1..Len(opened) :
        opened[d].x \in OpenExchanges /\ opened[d].id \in Numbers /\ d # 0
  <2> SUFFICES ASSUME NEW d \in 1..Len(opened)
               PROVE  opened[d].x \in OpenExchanges /\ opened[d].id \in Numbers /\ d # 0
    OBVIOUS
  <2>1. opened[d] \in OpenedChannel /\ d # 0
    BY <1>1
  <2> QED
    BY <2>1 DEF OpenedChannel
<1>5. EndsWith(arrays, opened[c].hooks, x)
  BY <1>1, <1>4, Zenon DEF HooksOK, ExchangeHooks, ChannelHooks
<1>6. \A y \in OpenExchanges : (y \in Range(hs)) <=> (y = x)
  <2>1. arrays \in Seq(Seq(Hook))
    BY <1>1, Zenon DEF SlicesOK
  <2> QED
    BY <1>1, <1>4, <1>5, <2>1, OnlyItsOwn, Zenon
<1> HIDE DEF hs
<1>7. ASSUME ~outlived', stopped' = {} PROVE Current(numbered', opened', openChannels')
  <2>1. numbered' = Unregistered(numbered, hs, k) /\ UNCHANGED stopped
    <3>1. \/ Trigger(c, Len(hooks)) /\ UNCHANGED stopped
          \/ c \in stopped'
      BY Zenon DEF CloseChannel
    <3> QED
      BY <1>7, <3>1, Zenon DEF Trigger, hs
  <2>2. Cleaned(numbered', hs, k)
    BY <1>1, <2>1, UnregisteredIs, Zenon
  <2>3. \A d \in 1..Len(opened) : (numbered[opened[d].x][opened[d].id] = d) <=> (d \in openChannels)
    BY <1>1, <1>2, <1>7, <2>1, Zenon DEF CurrentOK, Current
  <2>4. numbered[x][k] = c
    BY <1>1, <2>3, Zenon
  <2>5. ASSUME NEW d \in 1..Len(opened)
        PROVE  (numbered'[opened[d].x][opened[d].id] = d) <=> (d \in openChannels')
    <3> DEFINE y == opened[d].x
               j == opened[d].id
    <3>1. y \in OpenExchanges /\ j \in Numbers /\ d # 0
      BY <1>4, <2>5, Zenon
    <3>2. (numbered[y][j] = d) <=> (d \in openChannels)
      BY <2>3, <2>5, Zenon
    <3>3. numbered'[y][j] = IF y \in Range(hs) /\ j = k THEN 0 ELSE numbered[y][j]
      BY <2>2, <3>1, Zenon DEF Cleaned
    <3>4. CASE y = x /\ j = k
      <4>1. numbered'[y][j] = 0
        BY <1>6, <3>1, <3>3, <3>4, Zenon
      <4>2. d \in openChannels => d = c
        BY <2>4, <3>2, <3>4, Zenon
      <4> QED
        BY <1>2, <3>1, <4>1, <4>2, Zenon
    <3>5. CASE ~(y = x /\ j = k)
      <4>1. numbered'[y][j] = numbered[y][j]
        BY <1>6, <3>1, <3>3, <3>5, Zenon
      <4>2. d # c
        BY <3>5, Zenon
      <4> QED
        BY <1>2, <3>2, <4>1, <4>2, Zenon
    <3> QED
      BY <3>4, <3>5, Zenon
  <2> QED
    BY <1>2, <2>5, Zenon DEF Current
<1> QED
  BY <1>3, <1>7, Zenon DEF CurrentOK

(* At first no channel is open.                                            *)
LEMMA OpeningInitHooks == OpeningInit => HooksOK /\ CurrentOK
<1> SUFFICES ASSUME OpeningInit PROVE HooksOK /\ CurrentOK
  OBVIOUS
<1>1. /\ eHooks = NilSlice /\ opened = <<>>
      /\ xHooks = [x \in OpenExchanges |-> NilSlice]
  BY Zenon DEF OpeningInit
<1>2. Filled(arrays, eHooks)
  BY <1>1 DEF Filled, NilSlice
<1>3. ExchangeHooks(arrays, xHooks)
  BY <1>1, Zenon DEF ExchangeHooks
<1>4. \A c : ~(c \in 1..Len(opened))
  BY <1>1
<1> QED
  BY <1>2, <1>3, <1>4, Zenon DEF HooksOK, ChannelHooks, CurrentOK, Current

(* Every step keeps the hooks, and the set, of the open channels.          *)
LEMMA OpeningStepInv ==
  ASSUME MaxHooks <= 2
  PROVE  OpeningInv /\ [OpeningNext]_openingVars => OpeningInv'
<1> SUFFICES ASSUME OpeningInv, [OpeningNext]_openingVars PROVE HooksOK' /\ CurrentOK'
  BY NumbersStepInv, Zenon DEF OpeningInv
<1>1. NumberInv /\ HooksOK /\ CurrentOK
  BY Zenon DEF OpeningInv
<1>2. ASSUME UNCHANGED channelVars PROVE CurrentOK'
  BY <1>1, <1>2, Zenon DEF CurrentOK, channelVars
<1>3. ASSUME UNCHANGED <<hookVars, channelVars>> PROVE HooksOK' /\ CurrentOK'
  BY <1>1, <1>2, <1>3, Zenon DEF HooksOK, hookVars, channelVars
<1>4. CASE UNCHANGED openingVars
  BY <1>3, <1>4, Zenon DEF openingVars
<1>5. CASE Register
  BY <1>1, <1>2, <1>5, RegisterHooks, Zenon DEF Register
<1>6. ASSUME NEW x \in OpenExchanges, RegisterEndpoint(x) PROVE HooksOK' /\ CurrentOK'
  BY <1>1, <1>2, <1>6, RegisterEndpointHooks, Zenon DEF RegisterEndpoint
<1>7. ASSUME NEW typ \in Types, Listen(typ) \/ RemoveListener(typ) PROVE HooksOK' /\ CurrentOK'
  BY <1>3, <1>7, Zenon DEF Listen, RemoveListener
<1> QED
  BY <1>4, <1>5, <1>6, <1>7, OpenCurrent, PeerOpensCurrent, CloseCurrent, Zenon DEF OpeningNext

(* While the application has two channel hooks at most on an endpoint, the *)
(* two sides number apart, an open channel is the one of its number in the *)
(* set of its exchange, and a closed one is out of it (exchange.go,        *)
(* registerEndpoint, Open, getNextChannelID, unregisterChannel; hooks.go,  *)
(* Register, trigger; channel_set.go).  With three, exchanges may share    *)
(* the free place of one array, and the hook of one be that of another.    *)
THEOREM SetsAreCurrent ==
  ASSUME MaxHooks <= 2
  PROVE  OpeningSpec => []ChannelsAreNumbered
<1>1. OpeningInit => OpeningInv
  BY OpeningInitNumbers, OpeningInitHooks, Zenon DEF OpeningInv
<1>2. OpeningInv /\ [OpeningNext]_openingVars => OpeningInv'
  BY OpeningStepInv, Zenon
<1>3. OpeningInv => ChannelsAreNumbered
  <2>1. NumberInv => NumbersAreApart
    BY Zenon DEF NumberInv, OpenedOK, OwnNumbers, NumbersAreApart
  <2>2. CurrentOK => SetIsCurrent
    BY Zenon DEF CurrentOK, Current, SetIsCurrent
  <2> QED
    BY <2>1, <2>2, Zenon DEF OpeningInv, ChannelsAreNumbered
<1> QED
  BY <1>1, <1>2, <1>3, PTL DEF OpeningSpec
=============================================================================
