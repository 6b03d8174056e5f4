--------------------------- MODULE ExchangeProofs ---------------------------
(***************************************************************************)
(* The book of paths of an exchange for every number of pipes, every size  *)
(* of the book and every lifetime of a path; the way of a packet to its    *)
(* channel for every set of readers, accepters and ids; and the timers of  *)
(* an exchange for every set of channels.                                  *)
(***************************************************************************)
EXTENDS AddressBook, ChannelRouting, Exchange, TLAPS

-----------------------------------------------------------------------------
(* The book of paths                                                       *)

(* What holds of one entry.  A path that was given up is neither probed nor *)
(* waiting for an answer, and the expiry of a path that waits for none is a *)
(* lifetime after its last answer.                                          *)
EntryOK(p) ==
  /\ ~Reachable[p] => ~IsBackup[p] /\ SendHandshakeAt[p] = 0
  /\ ~Reachable[p] => answered[p] + Lifetime < now
  /\ ReceivedHandshakeAt[p] # 0 =>
       SendHandshakeAt[p] # 0 /\ answered[p] = ReceivedHandshakeAt[p]
  /\ ReceivedHandshakeAt[p] = 0 => answered[p] + Lifetime <= ExpireAt[p]

BookInv ==
  /\ TypeOK
  /\ now # 0
  /\ ActiveIsProbed
  /\ ReachableIsUsed
  /\ \A p \in Book : EntryOK(p)

-----------------------------------------------------------------------------
\* The book starts empty.
LEMMA InitBook == Init => BookInv
<1> SUFFICES ASSUME Init PROVE BookInv
  BY Zenon
<1>1. known = <<>> /\ Book = {}
  BY DEF Init, Book
<1>2. TypeOK
  <2>1. known \in Seq(Pipes) /\ active \in Pipes \cup {None} /\ now \in Nat
    BY <1>1 DEF Init
  <2>2. Reachable \in [Pipes -> BOOLEAN] /\ IsBackup \in [Pipes -> BOOLEAN]
    BY Zenon DEF Init
  <2>3. /\ SendHandshakeAt \in [Pipes -> Nat] /\ ReceivedHandshakeAt \in [Pipes -> Nat]
        /\ ExpireAt \in [Pipes -> Nat] /\ answered \in [Pipes -> Nat]
        /\ ewma \in [Pipes -> Int]
    BY DEF Init
  <2> QED
    BY <2>1, <2>2, <2>3, Zenon DEF Init, TypeOK
<1> QED
  BY <1>1, <1>2 DEF Init, BookInv, ActiveIsProbed, ReachableIsUsed

\* The entries are pipes.
LEMMA BookInPipes ==
  ASSUME known \in Seq(Pipes)
  PROVE  Book \subseteq Pipes /\ Len(known) \in Nat
<1>1. Len(known) \in Nat /\ \A i \in 1..Len(known) : known[i] \in Pipes
  OBVIOUS
<1> QED
  BY <1>1, Zenon DEF Book

\* Appending an entry adds it to the book.
LEMMA BookAfterAppend ==
  ASSUME known \in Seq(Pipes), NEW p \in Pipes, known' = Append(known, p)
  PROVE  Book' = Book \cup {p} /\ known' \in Seq(Pipes) /\ Book \subseteq Pipes
<1>1. /\ Len(known') = Len(known) + 1 /\ Len(known) \in Nat
      /\ \A i \in 1..Len(known) : known'[i] = known[i]
      /\ known'[Len(known) + 1] = p
      /\ known' \in Seq(Pipes)
      /\ \A i \in 1..Len(known) : known[i] \in Pipes
  OBVIOUS
<1>2. Book' \subseteq Book \cup {p}
  BY <1>1 DEF Book
<1>3. Book \cup {p} \subseteq Book'
  BY <1>1 DEF Book
<1> QED
  BY <1>1, <1>2, <1>3, Zenon DEF Book

\* AddPipe: a new entry is reachable and probed.
LEMMA AddPipeBook ==
  ASSUME BookInv, NEW p \in Pipes, AddPipe(p)
  PROVE  BookInv'
<1> USE DEF BookInv
<1>1. p \notin Book /\ Book' = Book \cup {p} /\ known' \in Seq(Pipes) /\ Book \subseteq Pipes
  BY BookAfterAppend, Zenon DEF AddPipe, AddEntry, TypeOK
<1>2. TypeOK'
  BY <1>1, BookAssumption DEF TypeOK, AddPipe, AddEntry, BookAssumption
<1>3. /\ Reachable'[p] /\ IsBackup'[p] /\ SendHandshakeAt'[p] = 0
      /\ ReceivedHandshakeAt'[p] = 0 /\ ExpireAt'[p] = now + Lifetime
      /\ answered'[p] = now /\ now' = now
  BY Zenon DEF AddPipe, AddEntry, TypeOK
<1>4. \A q \in Book : /\ Reachable'[q] = Reachable[q] /\ IsBackup'[q] = IsBackup[q]
                      /\ SendHandshakeAt'[q] = SendHandshakeAt[q]
                      /\ ReceivedHandshakeAt'[q] = ReceivedHandshakeAt[q]
                      /\ ExpireAt'[q] = ExpireAt[q] /\ answered'[q] = answered[q]
  BY <1>1, Zenon DEF AddPipe, AddEntry, TypeOK
<1>5. ASSUME NEW q \in Book' PROVE EntryOK(q)'
  <2>1. CASE q = p
    <3>1. now \in Nat /\ Lifetime \in Nat
      BY BookAssumption, Zenon DEF TypeOK, BookAssumption
    <3>2. answered'[p] + Lifetime <= ExpireAt'[p]
      BY <1>3, <3>1
    <3> QED
      BY <1>3, <2>1, <3>2, Zenon DEF EntryOK
  <2>2. CASE q \in Book
    BY <1>3, <1>4, <2>2, Zenon DEF EntryOK
  <2> QED
    BY <1>1, <1>5, <2>1, <2>2, Zenon
<1>6. ActiveIsProbed'
  BY <1>1, <1>3, <1>4, BookAssumption, Zenon
     DEF ActiveIsProbed, AddPipe, AddEntry, TypeOK, BookAssumption
<1>7. ReachableIsUsed'
  BY BookAssumption, Zenon DEF ReachableIsUsed, AddPipe, AddEntry, BookAssumption
<1> QED
  BY <1>2, <1>3, <1>5, <1>6, <1>7, Zenon

\* ReceivedHandshake: only a path that is waiting for an answer gets one.
LEMMA ReceivedHandshakeBook ==
  ASSUME BookInv, NEW p \in Pipes, ReceivedHandshake(p)
  PROVE  BookInv'
<1> USE DEF BookInv
<1>1. /\ Book' = Book /\ known' = known /\ active' = active /\ now' = now
      /\ Reachable' = Reachable /\ IsBackup' = IsBackup
      /\ SendHandshakeAt' = SendHandshakeAt /\ ExpireAt' = ExpireAt
  BY DEF ReceivedHandshake, Book
<1>2. TypeOK'
  <2>1. /\ ReceivedHandshakeAt' \in [Pipes -> Nat] /\ answered' \in [Pipes -> Nat]
    <3>1. CASE p \notin Book
      BY <3>1, Zenon DEF TypeOK, ReceivedHandshake
    <3>2. CASE p \in Book
      <4>1. /\ ReceivedHandshakeAt' = [ReceivedHandshakeAt EXCEPT ![p] = now]
            /\ answered' = [answered EXCEPT ![p] = now]
        BY <3>2, Zenon DEF ReceivedHandshake
      <4> QED
        BY <4>1, Zenon DEF TypeOK
    <3> QED
      BY <3>1, <3>2, Zenon
  <2>2. stuck' \in BOOLEAN
    BY Zenon DEF TypeOK, ReceivedHandshake
  <2> QED
    BY <1>1, <2>1, <2>2, Zenon DEF TypeOK, ReceivedHandshake
<1>3. ActiveIsProbed' /\ ReachableIsUsed'
  BY <1>1, Zenon DEF ActiveIsProbed, ReachableIsUsed
<1>4. ASSUME NEW q \in Book' PROVE EntryOK(q)'
  <2>0. q \in Book /\ q \in Pipes /\ EntryOK(q)
    BY <1>1, BookInPipes, Zenon DEF TypeOK
  <2>1. CASE ReceivedHandshakeAt'[q] = ReceivedHandshakeAt[q] /\ answered'[q] = answered[q]
    BY <1>1, <2>0, <2>1, Zenon DEF EntryOK
  <2>2. CASE q = p /\ SendHandshakeAt[p] # 0 /\ ReceivedHandshakeAt'[p] = now
             /\ answered'[p] = now
    BY <1>1, <2>0, <2>2, Zenon DEF EntryOK
  <2> QED
    BY <2>0, <2>1, <2>2, Zenon DEF ReceivedHandshake, TypeOK
<1> QED
  BY <1>1, <1>2, <1>3, <1>4, Zenon

-----------------------------------------------------------------------------
\* Sorting and trimming leave entries of the book, the first of which is
\* reachable if any is.
LEMMA SortedBook ==
  ASSUME BookInv, NextHandshakeEpoch, Reachable' \in [Pipes -> BOOLEAN]
  PROVE  /\ known' \in Seq(Pipes) /\ Len(known') \in Nat \ {0}
         /\ Book' \subseteq Book /\ known'[1] \in Book'
         /\ \A p \in Book' : Reachable'[p] => Reachable'[known'[1]]
<1> USE DEF BookInv
<1>1. Len(known) \in Nat \ {0} /\ Book \subseteq Pipes
  <2>1. Book \subseteq Pipes /\ Len(known) \in Nat
    BY BookInPipes, Zenon DEF TypeOK
  <2>2. Len(known) # 0
    BY DEF NextHandshakeEpoch, TypeOK
  <2> QED
    BY <2>1, <2>2, Zenon
<1>2. PICK s \in [1..Len(known) -> Book] : IsSorting(s) /\ known' = Trimmed(s)
  BY Zenon DEF NextHandshakeEpoch
<1>3. s \in Seq(Pipes) /\ Len(s) = Len(known)
  BY <1>1, <1>2
<1> DEFINE n == IF Len(s) > cMaxAddressBookEntries THEN cMaxAddressBookEntries ELSE Len(s)
<1>4. n \in Nat \ {0} /\ n <= Len(s)
  BY <1>1, <1>3, BookAssumption DEF BookAssumption
<1>5. known' = SubSeq(s, 1, n)
  BY <1>2, Zenon DEF Trimmed
<1> HIDE DEF n
<1>6. /\ known' \in Seq(Pipes) /\ Len(known') = n
      /\ \A i \in 1..n : known'[i] = s[i]
  BY <1>3, <1>4, <1>5
<1>7. Book' = {s[i] : i \in 1..n}
  BY <1>6, Zenon DEF Book
<1>8. \A i \in 1..n : s[i] \in Book
  BY <1>1, <1>2, <1>3, <1>4
<1>9. \A i \in 1..n : Reachable'[s[i]] => Reachable'[s[1]]
  <2> SUFFICES ASSUME NEW i \in 1..n, Reachable'[s[i]], i # 1 PROVE Reachable'[s[1]]
    BY Zenon
  <2>1. ~Less(s[i], s[1])
    BY <1>2, <1>3, <1>4 DEF IsSorting
  <2> QED
    BY <2>1, Zenon DEF Less
<1> QED
  BY <1>4, <1>6, <1>7, <1>8, <1>9

\* The verdict of a round on one entry of the book.
LEMMA JudgedEntry ==
  ASSUME BookInv, Judged, NEW p \in Book
  PROVE  /\ Answered(p) => Reachable'[p] /\ ExpireAt'[p] = answered[p] + Lifetime
         /\ ~Answered(p) => ExpireAt'[p] = ExpireAt[p]
                            /\ answered[p] + Lifetime <= ExpireAt[p]
         /\ ~Reachable'[p] => answered[p] + Lifetime < now
         /\ ~Reachable[p] => ~Reachable'[p]
<1> USE DEF BookInv
<1>1. p \in Pipes /\ EntryOK(p)
  BY BookInPipes, Zenon DEF TypeOK
<1>2. /\ answered[p] \in Nat /\ ExpireAt[p] \in Nat /\ now \in Nat
      /\ SendHandshakeAt[p] \in Nat /\ ReceivedHandshakeAt[p] \in Nat
      /\ Lifetime \in Nat /\ Reachable[p] \in BOOLEAN
  BY <1>1, BookAssumption, Zenon DEF TypeOK, BookAssumption
<1>3. CASE Answered(p)
  BY <1>1, <1>2, <1>3, Zenon DEF Judged, Answered, EntryOK
<1>4. CASE ~Answered(p)
  <2>1. ExpireAt'[p] = ExpireAt[p] /\ answered[p] + Lifetime <= ExpireAt[p]
    BY <1>1, <1>4, Zenon DEF Judged, Answered, EntryOK
  <2>2. CASE Unanswered(p) /\ ExpireAt[p] < now
    <3>1. Reachable'[p] = FALSE
      BY <1>1, <1>4, <2>2, Zenon DEF Judged
    <3> QED
      BY <1>2, <1>4, <2>1, <2>2, <3>1
  <2>3. CASE ~(Unanswered(p) /\ ExpireAt[p] < now)
    <3>1. Reachable'[p] = Reachable[p]
      BY <1>1, <1>4, <2>3, Zenon DEF Judged
    <3> QED
      BY <1>1, <1>4, <2>1, <3>1, Zenon DEF EntryOK
  <2> QED
    BY <2>2, <2>3, Zenon
<1> QED
  BY <1>3, <1>4, Zenon

\* A round of handshakes.
LEMMA DeliverHandshakeBook ==
  ASSUME BookInv, DeliverHandshake
  PROVE  BookInv'
<1> USE DEF BookInv
<1>1. NextHandshakeEpoch /\ Judged /\ now' = now /\ answered' = answered
  BY Zenon DEF DeliverHandshake, NextHandshakeEpoch
<1>2. Book \subseteq Pipes
  BY BookInPipes, Zenon DEF TypeOK
<1>3. /\ ExpireAt' \in [Pipes -> Nat] /\ Reachable' \in [Pipes -> BOOLEAN]
  <2>1. \A p \in Pipes : ReceivedHandshakeAt[p] + Lifetime \in Nat /\ ExpireAt[p] \in Nat
    BY BookAssumption DEF TypeOK, BookAssumption
  <2>2. ExpireAt' \in [Pipes -> Nat]
    BY <1>1, <2>1, Zenon DEF Judged
  <2>3. \A p \in Pipes : Reachable[p] \in BOOLEAN
    BY Zenon DEF TypeOK
  <2>4. Reachable' \in [Pipes -> BOOLEAN]
    BY <1>1, <2>3, Zenon DEF Judged
  <2> QED
    BY <2>2, <2>4, Zenon
<1>4. ewma' \in [Pipes -> Int]
  <2>1. \A old, d \in Int : AddLatencySample(old, d) \in Int
    BY DEF AddLatencySample
  <2>2. \A p \in Pipes : /\ ReceivedHandshakeAt[p] - SendHandshakeAt[p] \in Int
                         /\ now - SendHandshakeAt[p] \in Int /\ ewma[p] \in Int
    BY DEF TypeOK
  <2>3. InitLatency \in Int
    BY BookAssumption DEF BookAssumption
  <2>4. \A p \in Pipes :
          /\ AddLatencySample(ewma[p], ReceivedHandshakeAt[p] - SendHandshakeAt[p]) \in Int
          /\ AddLatencySample(ewma[p], now - SendHandshakeAt[p]) \in Int
    BY <2>1, <2>2, Zenon
  <2> QED
    BY <1>1, <2>2, <2>3, <2>4, Zenon DEF Judged
<1>5. /\ known' \in Seq(Pipes) /\ Len(known') \in Nat \ {0}
      /\ Book' \subseteq Book /\ known'[1] \in Book'
      /\ \A p \in Book' : Reachable'[p] => Reachable'[known'[1]]
  BY <1>1, <1>3, SortedBook, Zenon
<1>6. active' = IF Reachable'[known'[1]] THEN known'[1] ELSE None
  BY <1>1, Zenon DEF NextHandshakeEpoch
<1>7. /\ IsBackup' \in [Pipes -> BOOLEAN]
      /\ \A p \in Book' : IsBackup'[p] => Reachable'[p]
      /\ Reachable'[known'[1]] => IsBackup'[known'[1]]
  <2>1. IsBackup' = [p \in Pipes |->
          IF p \in Book'
          THEN Reachable'[p]
               /\ \E i \in 1..Len(known') : known'[i] = p /\ i <= cNumBackupAddresses
          ELSE IsBackup[p]]
    BY <1>1, Zenon DEF NextHandshakeEpoch, Book
  <2>2. IsBackup' \in [Pipes -> BOOLEAN]
    BY <2>1, <1>3, Zenon DEF TypeOK
  <2>3. \A p \in Book' : IsBackup'[p] <=>
          Reachable'[p] /\ \E i \in 1..Len(known') : known'[i] = p /\ i <= cNumBackupAddresses
    BY <2>1, <1>5, <1>2, Zenon
  <2>4. 1 \in 1..Len(known') /\ 1 <= cNumBackupAddresses
    BY <1>5, BookAssumption DEF BookAssumption
  <2> QED
    BY <1>5, <2>2, <2>3, <2>4, Zenon
<1>8. /\ SendHandshakeAt' \in [Pipes -> Nat] /\ ReceivedHandshakeAt' \in [Pipes -> Nat]
      /\ \A p \in Book' : ReceivedHandshakeAt'[p] = 0
      /\ \A p \in Book' : ~IsBackup'[p] => SendHandshakeAt'[p] = 0
  <2>1. PICK sent \in SUBSET HandshakePipes :
          SendHandshakeAt' = [p \in Pipes |-> IF p \in sent THEN now
                                ELSE IF p \in Book THEN 0 ELSE SendHandshakeAt[p]]
    BY Zenon DEF DeliverHandshake
  <2>2. \A p \in sent : IsBackup'[p]
    BY Zenon DEF HandshakePipes
  <2>3. SendHandshakeAt' \in [Pipes -> Nat]
    BY <2>1, Zenon DEF TypeOK
  <2>4. ReceivedHandshakeAt' \in [Pipes -> Nat]
    BY Zenon DEF TypeOK, DeliverHandshake
  <2>5. \A p \in Book' : ReceivedHandshakeAt'[p] = 0
    BY <1>2, <1>5, Zenon DEF DeliverHandshake
  <2> QED
    BY <1>2, <1>5, <2>1, <2>2, <2>3, <2>4, <2>5, Zenon
<1>9. TypeOK'
  <2>1. active' \in Pipes \cup {None}
    BY <1>2, <1>5, <1>6, Zenon
  <2> QED
    BY <1>3, <1>4, <1>5, <1>7, <1>8, <2>1, Zenon DEF TypeOK, DeliverHandshake
<1>10. ActiveIsProbed'
  BY <1>5, <1>6, <1>7, Zenon DEF ActiveIsProbed
<1>11. ReachableIsUsed'
  <2>1. known'[1] # None
    BY <1>2, <1>5, BookAssumption, Zenon DEF BookAssumption
  <2> QED
    BY <1>5, <1>6, <2>1, Zenon DEF ReachableIsUsed
<1>12. ASSUME NEW p \in Book' PROVE EntryOK(p)'
  <2>1. p \in Book /\ p \in Pipes
    BY <1>2, <1>5, Zenon
  <2>2. /\ Answered(p) => ExpireAt'[p] = answered[p] + Lifetime
        /\ ~Answered(p) => ExpireAt'[p] = ExpireAt[p] /\ answered[p] + Lifetime <= ExpireAt[p]
        /\ ~Reachable'[p] => answered[p] + Lifetime < now
    BY <1>1, <2>1, JudgedEntry, Zenon
  <2>3. answered[p] + Lifetime <= ExpireAt'[p]
    BY <2>1, <2>2, BookAssumption DEF TypeOK, BookAssumption
  <2> QED
    BY <1>1, <1>7, <1>8, <2>2, <2>3, Zenon DEF EntryOK
<1> QED
  BY <1>1, <1>9, <1>10, <1>11, <1>12, Zenon

\* Time passes.
LEMMA TickBook ==
  ASSUME BookInv, Tick
  PROVE  BookInv'
<1> USE DEF BookInv
<1>1. Book' = Book /\ now' = now + 1
  BY Zenon DEF Tick, Book
<1>2. TypeOK' /\ ActiveIsProbed' /\ ReachableIsUsed'
  BY <1>1 DEF Tick, entryVars, TypeOK, ActiveIsProbed, ReachableIsUsed
<1>3. ASSUME NEW p \in Book' PROVE EntryOK(p)'
  <2>1. p \in Pipes /\ EntryOK(p)
    BY <1>1, BookInPipes, Zenon DEF TypeOK
  <2> QED
    BY <1>1, <2>1, BookAssumption DEF EntryOK, Tick, entryVars, TypeOK, BookAssumption
<1>4. now' # 0
  BY <1>1 DEF TypeOK
<1> QED
  BY <1>2, <1>3, <1>4, Zenon

-----------------------------------------------------------------------------
\* The invariant of the book, from which the theorems below follow.
THEOREM BookInvariance == Spec => []BookInv
<1>1. BookInv /\ [Next]_vars => BookInv'
  <2> SUFFICES ASSUME BookInv, [Next]_vars PROVE BookInv'
    BY Zenon
  <2>1. CASE UNCHANGED vars
    <3>1. Book' = Book
      BY <2>1, Zenon DEF vars, Book
    <3>2. TypeOK' /\ now' # 0
      BY <2>1, Zenon DEF vars, entryVars, BookInv, TypeOK
    <3>3. ActiveIsProbed' /\ ReachableIsUsed'
      BY <2>1, <3>1, Zenon DEF vars, entryVars, BookInv, ActiveIsProbed, ReachableIsUsed
    <3>4. \A p \in Book' : EntryOK(p)'
      BY <2>1, <3>1, Zenon DEF vars, entryVars, BookInv, EntryOK
    <3> QED
      BY <3>2, <3>3, <3>4, Zenon DEF BookInv
  <2>2. CASE Next
    BY <2>2, AddPipeBook, ReceivedHandshakeBook, DeliverHandshakeBook, TickBook, Zenon DEF Next
  <2> QED
    BY <2>1, <2>2, Zenon
<1> QED
  BY <1>1, InitBook, PTL DEF Spec

\* The path in use is known, reachable and probed (ActiveIsProbed): channel
\* packets never go out on a path whose failure would not be noticed.
THEOREM ActivePathIsProbed == Spec => []ActiveIsProbed
<1>1. BookInv => ActiveIsProbed
  BY Zenon DEF BookInv
<1> QED
  BY <1>1, BookInvariance, PTL

\* As long as one known path is believed reachable, one is in use.
THEOREM ReachablePathIsUsed == Spec => []ReachableIsUsed
<1>1. BookInv => ReachableIsUsed
  BY Zenon DEF BookInv
<1> QED
  BY <1>1, BookInvariance, PTL

\* NextHandshakeEpoch gives a path up only after a silent lifetime.
THEOREM SilentPathsOnly == Spec => []GivenUpOnlyWhenSilent
<1>1. BookInv => GivenUpOnlyWhenSilent
  BY Zenon DEF BookInv, GivenUpOnlyWhenSilent, EntryOK
<1> QED
  BY <1>1, BookInvariance, PTL

\* A path that was given up is not believed reachable again.
THEOREM NoSecondChance == Spec => GivenUpForGood
<1>1. BookInv /\ [Next]_vars
        => [\A p \in Book : ~Reachable[p] /\ p \in Book' => ~Reachable'[p]]_vars
  <2> SUFFICES ASSUME BookInv, Next, NEW p \in Book, ~Reachable[p]
               PROVE  ~Reachable'[p]
    BY Zenon
  <2>1. p \in Pipes
    BY BookInPipes, Zenon DEF BookInv, TypeOK
  <2>2. ASSUME NEW q \in Pipes, AddPipe(q) PROVE ~Reachable'[p]
    BY <2>1, <2>2, Zenon DEF AddPipe, AddEntry, BookInv, TypeOK
  <2>3. ASSUME NEW q \in Pipes, ReceivedHandshake(q) PROVE ~Reachable'[p]
    BY <2>3, Zenon DEF ReceivedHandshake
  <2>4. CASE DeliverHandshake
    BY <2>4, JudgedEntry, Zenon DEF DeliverHandshake, NextHandshakeEpoch
  <2>5. CASE Tick
    BY <2>5, Zenon DEF Tick, entryVars
  <2> QED
    BY <2>2, <2>3, <2>4, <2>5, Zenon DEF Next
<1> QED
  BY <1>1, BookInvariance, PTL DEF Spec, GivenUpForGood

-----------------------------------------------------------------------------
(* The way of a packet to its channel                                      *)

RoutingTypeOK ==
  /\ setMtx \in Readers \cup {"free"}
  /\ \A r \in Readers : setMtx = r <=> pc[r] = "promise"
  /\ idOf \in Seq(Ids) /\ channels \in [Ids -> 0..Len(idOf)]
  /\ fate \in Seq({"new", "queued", "accepted", "killed", "closed"})
  /\ Len(fate) = Len(idOf)
  /\ dying \subseteq Made
  /\ pc \in [Readers -> {"idle", "get", "getOrAdd", "promise", "handle", "deliver"}]
  /\ packet \in [Readers -> Packets \cup {NoPacket}]
  /\ \A r \in Readers : pc[r] # "idle" => packet[r] \in Packets
  /\ mine \in [Readers -> 0..Len(idOf)]
  /\ listening \in BOOLEAN /\ closed \in BOOLEAN
  /\ queue \in Seq(Made) /\ backlogSize = Len(queue)
  /\ asleep \subseteq Accepters /\ awake \subseteq Accepters

(* Who holds the promise of an id has found no channel there, and none     *)
(* comes before its own.                                                   *)
PromisedIsFree == \A r \in Readers : pc[r] = "promise" => channels[packet[r].id] = 0

(* A channel that is new is in the hands of one reader.                    *)
NewIsHandled ==
  /\ \A r \in Readers : pc[r] = "handle" => mine[r] # 0 /\ fate[mine[r]] = "new" /\ packet[r].kind # "plain"
  /\ \A r, q \in Readers : pc[r] = "handle" /\ pc[q] = "handle" /\ mine[r] = mine[q] => r = q

(* A channel whose hook is still to run has its id until it has run: the   *)
(* hook, which removes whatever has the id, removes no other channel.      *)
DyingIsRegistered ==
  \A c \in dying : fate[c] \in {"killed", "closed"} /\ channels[idOf[c]] = c

QueuedOnce == \A i, j \in 1..Len(queue) : queue[i] = queue[j] => i = j

RoutingInv ==
  /\ RoutingTypeOK /\ PromisedIsFree /\ NewIsHandled /\ DyingIsRegistered /\ QueuedOnce
  /\ OneChannelPerId /\ NoChannelForgotten /\ AcceptersWake

(* What is in a sequence.                                                  *)
LEMMA RangeIs ==
  ASSUME NEW S, NEW s \in Seq(S)
  PROVE  Range(s) = {s[i] : i \in 1..Len(s)}
BY DEF Range

(* Every element of a sequence is of its set.                              *)
LEMMA ElementIs ==
  ASSUME NEW S, NEW s \in Seq(S)
  PROVE  /\ \A i \in 1..Len(s) : s[i] \in S
         /\ Range(s) \subseteq S
BY DEF Range

(* What is at no place of a sequence is not in it.                         *)
LEMMA NotIn ==
  ASSUME NEW S, NEW s \in Seq(S), NEW x, \A i \in 1..Len(s) : s[i] # x
  PROVE  x \notin Range(s)
BY DEF Range

(* The numbers up to the next one.                                         *)
LEMMA OneMore ==
  ASSUME NEW n \in Nat, NEW c \in 1..(n + 1)
  PROVE  c = n + 1 \/ c \in 1..n
OBVIOUS

(* At the start there is no channel.                                       *)
LEMMA RoutingInitInv == RoutingInit => RoutingInv
<1> SUFFICES ASSUME RoutingInit PROVE RoutingInv
  OBVIOUS
<1>1. Made = {} /\ Len(queue) = 0 /\ Len(idOf) = 0 /\ Len(fate) = 0
  BY DEF RoutingInit, Made
<1>2. idOf \in Seq(Ids) /\ queue \in Seq(Made) /\ fate \in Seq({"new", "queued", "accepted", "killed", "closed"})
  BY DEF RoutingInit
<1>3. 0 \in 0..Len(idOf)
  BY <1>1
<1>4. RoutingTypeOK
  BY <1>1, <1>2, <1>3, RoutingAssumption, Zenon DEF RoutingInit, RoutingTypeOK
<1>5. PromisedIsFree /\ NewIsHandled /\ DyingIsRegistered /\ QueuedOnce
  BY <1>1 DEF RoutingInit, PromisedIsFree, NewIsHandled, DyingIsRegistered, QueuedOnce
<1>6. OneChannelPerId /\ NoChannelForgotten /\ AcceptersWake
  BY <1>1, Zenon DEF RoutingInit, OneChannelPerId, Live, NoChannelForgotten, AcceptersWake
<1> QED
  BY <1>4, <1>5, <1>6, Zenon DEF RoutingInv

(* A reader that neither takes a new channel nor leaves one moves alone.   *)
LEMMA ReaderMoves ==
  ASSUME RoutingInv, NEW r \in Readers, pc[r] # "handle", pc'[r] # "handle",
         \A q \in Readers \ {r} : pc'[q] = pc[q] /\ packet'[q] = packet[q] /\ mine'[q] = mine[q],
         UNCHANGED <<channels, idOf, fate, dying, listenerVars, asleep, awake>>,
         RoutingTypeOK', pc'[r] = "promise" => channels[packet'[r].id] = 0
  PROVE  RoutingInv'
<1>1. PromisedIsFree'
  BY Zenon DEF RoutingInv, PromisedIsFree
<1>2. NewIsHandled'
  BY DEF RoutingInv, NewIsHandled
<1>3. DyingIsRegistered' /\ QueuedOnce'
  BY Zenon DEF RoutingInv, DyingIsRegistered, QueuedOnce, listenerVars
<1>4. OneChannelPerId'
  BY Zenon DEF RoutingInv, OneChannelPerId, Live, Made
<1>5. NoChannelForgotten'
  <2> SUFFICES ASSUME NEW c \in Made
               PROVE  (/\ fate[c] = "new" => \E q \in Readers : pc[q] = "handle" /\ mine[q] = c
                       /\ fate[c] = "queued" <=> ~closed /\ c \in Range(queue)
                       /\ channels[idOf[c]] = c /\ fate[c] \in {"killed", "closed"} => c \in dying)'
    BY Zenon DEF NoChannelForgotten, Made
  <2>1. fate[c] = "new" => \E q \in Readers \ {r} : pc[q] = "handle" /\ mine[q] = c
    BY Zenon DEF RoutingInv, NoChannelForgotten
  <2>2. fate'[c] = "new" => \E q \in Readers : pc'[q] = "handle" /\ mine'[q] = c
    BY <2>1, Zenon
  <2> QED
    BY <2>2, Zenon DEF RoutingInv, NoChannelForgotten, listenerVars
<1>6. AcceptersWake'
  BY Zenon DEF RoutingInv, AcceptersWake, listenerVars
<1> QED
  BY <1>1, <1>2, <1>3, <1>4, <1>5, <1>6, Zenon DEF RoutingInv

(* receivedPacket begins.                                                  *)
LEMMA ReceiveKeeps ==
  ASSUME RoutingInv, NEW r \in Readers, NEW p \in Packets, Receive(r, p)
  PROVE  RoutingInv'
<1>1. RoutingTypeOK'
  BY Zenon DEF RoutingInv, RoutingTypeOK, Receive, setVars, listenerVars, Made
<1>2. /\ pc[r] # "handle" /\ pc'[r] = "get"
      /\ \A q \in Readers \ {r} : pc'[q] = pc[q] /\ packet'[q] = packet[q] /\ mine'[q] = mine[q]
  BY Zenon DEF RoutingInv, RoutingTypeOK, Receive
<1> QED
  BY <1>1, <1>2, ReaderMoves, Zenon DEF Receive, setVars

(* GetOrAdd finds the channel, or looks again, or keeps the lock.          *)
LEMMA GetKeeps ==
  ASSUME RoutingInv, NEW r \in Readers, Get(r)
  PROVE  RoutingInv'
<1> DEFINE c == channels[packet[r].id]
<1>1. /\ pc[r] \in {"get", "getOrAdd"} /\ setMtx = "free"
      /\ mine' = [mine EXCEPT ![r] = c]
      /\ UNCHANGED <<channels, idOf, fate, dying, packet, listenerVars, asleep, awake>>
  BY Zenon DEF Get
<1>2. \/ pc' = [pc EXCEPT ![r] = "deliver"] /\ setMtx' = setMtx
      \/ pc' = [pc EXCEPT ![r] = "getOrAdd"] /\ setMtx' = setMtx
      \/ c = 0 /\ pc' = [pc EXCEPT ![r] = "promise"] /\ setMtx' = r
  BY Zenon DEF Get
<1>3. packet[r] \in Packets /\ c \in 0..Len(idOf)
  BY <1>1, Zenon DEF RoutingInv, RoutingTypeOK, Packets
<1>4. \A q \in Readers : pc[q] # "promise" /\ setMtx # q
  BY <1>1, RoutingAssumption, Zenon DEF RoutingInv, RoutingTypeOK
<1>5. /\ setMtx' \in Readers \cup {"free"}
      /\ \A q \in Readers : setMtx' = q <=> pc'[q] = "promise"
      /\ pc' \in [Readers -> {"idle", "get", "getOrAdd", "promise", "handle", "deliver"}]
      /\ \A q \in Readers \ {r} : pc'[q] = pc[q]
      /\ pc'[r] # "idle" /\ pc'[r] # "handle" /\ (pc'[r] = "promise" => c = 0)
  <2>1. pc \in [Readers -> {"idle", "get", "getOrAdd", "promise", "handle", "deliver"}]
    BY Zenon DEF RoutingInv, RoutingTypeOK
  <2> HIDE DEF c
  <2>2. CASE pc' = [pc EXCEPT ![r] = "deliver"] /\ setMtx' = setMtx
    BY <2>1, <2>2, <1>1, <1>4, Zenon
  <2>3. CASE pc' = [pc EXCEPT ![r] = "getOrAdd"] /\ setMtx' = setMtx
    BY <2>1, <2>3, <1>1, <1>4, Zenon
  <2>4. CASE c = 0 /\ pc' = [pc EXCEPT ![r] = "promise"] /\ setMtx' = r
    BY <2>1, <2>4, <1>4, Zenon
  <2> QED
    BY <2>2, <2>3, <2>4, <1>2, Zenon
<1>6. mine' \in [Readers -> 0..Len(idOf)] /\ \A q \in Readers \ {r} : mine'[q] = mine[q]
  BY <1>1, <1>3, Zenon DEF RoutingInv, RoutingTypeOK
<1>7. RoutingTypeOK'
  BY <1>1, <1>3, <1>5, <1>6, Zenon DEF RoutingInv, RoutingTypeOK, listenerVars, Made
<1> QED
  BY <1>1, <1>5, <1>6, <1>7, ReaderMoves, Zenon

(* The packet is delivered, or the promise cancelled.                      *)
LEMMA DoneKeeps ==
  ASSUME RoutingInv, NEW r \in Readers, Done(r), pc[r] \in {"promise", "deliver"},
         setMtx' = IF pc[r] = "promise" THEN "free" ELSE setMtx,
         UNCHANGED <<channels, idOf, fate, dying, listenerVars, asleep, awake>>
  PROVE  RoutingInv'
<1>1. /\ pc' = [pc EXCEPT ![r] = "idle"]
      /\ packet' = [packet EXCEPT ![r] = NoPacket]
      /\ mine' = [mine EXCEPT ![r] = 0]
  BY Zenon DEF Done
<1>2. /\ setMtx' \in Readers \cup {"free"}
      /\ \A q \in Readers : setMtx' = q <=> pc'[q] = "promise"
  BY <1>1, RoutingAssumption, Zenon DEF RoutingInv, RoutingTypeOK
<1>3. 0 \in 0..Len(idOf)
  BY DEF RoutingInv, RoutingTypeOK
<1>4. RoutingTypeOK'
  BY <1>1, <1>2, <1>3, Zenon DEF RoutingInv, RoutingTypeOK, listenerVars, Made
<1>5. /\ pc'[r] = "idle"
      /\ \A q \in Readers \ {r} : pc'[q] = pc[q] /\ packet'[q] = packet[q] /\ mine'[q] = mine[q]
  BY <1>1, Zenon DEF RoutingInv, RoutingTypeOK
<1> QED
  BY <1>4, <1>5, ReaderMoves, Zenon

(* The promise is kept: the id had no channel, so no live one loses it.    *)
LEMMA PromiseKeeps ==
  ASSUME RoutingInv, NEW r \in Readers, pc[r] = "promise", packet[r].kind # "plain",
         setMtx' = "free", idOf' = Append(idOf, packet[r].id), fate' = Append(fate, "new"),
         channels' = [channels EXCEPT ![packet[r].id] = Len(idOf) + 1],
         mine' = [mine EXCEPT ![r] = Len(idOf) + 1], pc' = [pc EXCEPT ![r] = "handle"],
         UNCHANGED <<packet, dying, listenerVars, asleep, awake>>
  PROVE  RoutingInv'
<1> DEFINE n == Len(idOf)
           id == packet[r].id
           Fates == {"new", "queued", "accepted", "killed", "closed"}
<1>1. packet[r] \in Packets /\ id \in Ids /\ channels[id] = 0 /\ n \in Nat
  BY DEF RoutingInv, RoutingTypeOK, PromisedIsFree, Packets
<1>2. idOf \in Seq(Ids) /\ fate \in Seq(Fates) /\ Len(fate) = n
  BY Zenon DEF RoutingInv, RoutingTypeOK
<1>3. /\ idOf' \in Seq(Ids) /\ Len(idOf') = n + 1 /\ idOf'[n + 1] = id
      /\ \A c \in 1..n : idOf'[c] = idOf[c] /\ idOf[c] \in Ids
  BY <1>1, <1>2
<1>4. /\ fate' \in Seq(Fates) /\ Len(fate') = n + 1 /\ fate'[n + 1] = "new"
      /\ \A c \in 1..n : fate'[c] = fate[c]
  BY <1>1, <1>2
<1>5. Made = 1..n /\ Made' = 1..(n + 1) /\ Made \subseteq Made' /\ 0..n \subseteq 0..(n + 1)
  BY <1>1, <1>3 DEF Made
<1>6. /\ channels' \in [Ids -> 0..(n + 1)] /\ channels'[id] = n + 1
      /\ \A k \in Ids \ {id} : channels'[k] = channels[k]
  BY <1>1 DEF RoutingInv, RoutingTypeOK
<1>7. /\ mine' \in [Readers -> 0..(n + 1)] /\ mine'[r] = n + 1
      /\ \A q \in Readers \ {r} : mine'[q] = mine[q] /\ mine[q] \in 0..n
  BY <1>1 DEF RoutingInv, RoutingTypeOK
<1>8. /\ pc' \in [Readers -> {"idle", "get", "getOrAdd", "promise", "handle", "deliver"}]
      /\ pc'[r] = "handle" /\ \A q \in Readers \ {r} : pc'[q] = pc[q] /\ pc[q] # "promise"
  BY Zenon DEF RoutingInv, RoutingTypeOK
<1>9. queue' = queue /\ queue \in Seq(Made')
  <2>1. queue \in Seq(Made) /\ queue' = queue
    BY Zenon DEF RoutingInv, RoutingTypeOK, listenerVars
  <2> QED
    BY <2>1, <1>5
<1> HIDE DEF n
<1>10. RoutingTypeOK'
  <2>1. /\ setMtx' \in Readers \cup {"free"}
        /\ \A q \in Readers : setMtx' = q <=> pc'[q] = "promise"
    BY <1>8, RoutingAssumption, Zenon
  <2>2. /\ packet' \in [Readers -> Packets \cup {NoPacket}]
        /\ \A q \in Readers : pc'[q] # "idle" => packet'[q] \in Packets
    BY <1>1, <1>8, Zenon DEF RoutingInv, RoutingTypeOK
  <2>3. dying' \subseteq Made'
    BY <1>5, Zenon DEF RoutingInv, RoutingTypeOK
  <2> QED
    BY <1>3, <1>4, <1>6, <1>7, <1>8, <1>9, <2>1, <2>2, <2>3 DEF RoutingInv, RoutingTypeOK, listenerVars
<1>11. PromisedIsFree'
  BY <1>8, Zenon DEF PromisedIsFree
<1>12. NewIsHandled'
  <2>1. \A q \in Readers \ {r} : pc'[q] = "handle" =>
           mine'[q] \in 1..n /\ fate'[mine'[q]] = "new" /\ packet'[q].kind # "plain"
    BY <1>1, <1>4, <1>7, <1>8 DEF RoutingInv, NewIsHandled, n
  <2>2. mine'[r] # 0 /\ fate'[mine'[r]] = "new" /\ \A q \in Readers \ {r} : mine'[q] # mine'[r]
    BY <1>1, <1>4, <1>7
  <2>3. \A q \in Readers \ {r} : mine'[q] \in 1..n => mine'[q] # 0
    BY <1>1
  <2>4. \A q \in Readers : pc'[q] = "handle" =>
           mine'[q] # 0 /\ fate'[mine'[q]] = "new" /\ packet'[q].kind # "plain"
    BY <2>1, <2>2, <2>3, Zenon
  <2>5. \A q, t \in Readers \ {r} : pc'[q] = "handle" /\ pc'[t] = "handle" /\ mine'[q] = mine'[t] => q = t
    BY <1>7, <1>8 DEF RoutingInv, NewIsHandled
  <2>6. \A q, t \in Readers : pc'[q] = "handle" /\ pc'[t] = "handle" /\ mine'[q] = mine'[t] => q = t
    BY <2>2, <2>5
  <2> QED
    BY <2>4, <2>6, Zenon DEF NewIsHandled
<1>13. DyingIsRegistered'
  <2> SUFFICES ASSUME NEW c \in dying PROVE (fate[c] \in {"killed", "closed"} /\ channels[idOf[c]] = c)'
    BY Zenon DEF DyingIsRegistered
  <2>1. c \in 1..n /\ fate[c] \in {"killed", "closed"} /\ channels[idOf[c]] = c
    BY <1>5, Zenon DEF RoutingInv, RoutingTypeOK, DyingIsRegistered
  <2>2. idOf[c] # id
    BY <1>1, <2>1
  <2> QED
    BY <1>3, <1>4, <1>6, <2>1, <2>2, Zenon
<1>14. QueuedOnce'
  BY <1>9, Zenon DEF RoutingInv, QueuedOnce
<1>15. OneChannelPerId'
  <2> SUFFICES ASSUME NEW c \in Live' PROVE channels'[idOf'[c]] = c
    BY Zenon DEF OneChannelPerId
  <2>1. CASE c = n + 1
    BY <2>1, <1>3, <1>6, Zenon
  <2>2. CASE c \in 1..n
    <3>1. c \in Live
      BY <2>2, <1>4, <1>5, Zenon DEF Live
    <3>2. channels[idOf[c]] = c
      BY <3>1, Zenon DEF RoutingInv, OneChannelPerId
    <3>3. idOf[c] # id
      BY <1>1, <2>2, <3>2
    <3> QED
      BY <1>3, <1>6, <2>2, <3>2, <3>3, Zenon
  <2>3. c \in 1..(n + 1)
    BY <1>5, Zenon DEF Live
  <2>4. c = n + 1 \/ c \in 1..n
    BY <2>3, <1>1, OneMore, Zenon
  <2> QED
    BY <2>1, <2>2, <2>4, Zenon
<1>16. NoChannelForgotten'
  <2> SUFFICES ASSUME NEW c \in Made'
               PROVE  (/\ fate[c] = "new" => \E q \in Readers : pc[q] = "handle" /\ mine[q] = c
                       /\ fate[c] = "queued" <=> ~closed /\ c \in Range(queue)
                       /\ channels[idOf[c]] = c /\ fate[c] \in {"killed", "closed"} => c \in dying)'
    BY Zenon DEF NoChannelForgotten
  <2>1. Range(queue) \subseteq 1..n /\ closed' = closed /\ queue' = queue
    <3>1. queue \in Seq(1..n)
      BY <1>5, Zenon DEF RoutingInv, RoutingTypeOK
    <3>2. Range(queue) \subseteq 1..n
      BY <3>1, ElementIs, Zenon
    <3> QED
      BY <3>2, Zenon DEF listenerVars
  <2>2. CASE c = n + 1
    BY <2>1, <2>2, <1>1, <1>4, <1>7, <1>8
  <2>3. CASE c \in 1..n
    <3>1. /\ fate[c] = "new" => \E q \in Readers : pc[q] = "handle" /\ mine[q] = c
          /\ fate[c] = "queued" <=> ~closed /\ c \in Range(queue)
          /\ channels[idOf[c]] = c /\ fate[c] \in {"killed", "closed"} => c \in dying
      BY <2>3, <1>5, Zenon DEF RoutingInv, NoChannelForgotten
    <3>2. fate[c] = "new" => \E q \in Readers : pc'[q] = "handle" /\ mine'[q] = c
      BY <3>1, <1>7, <1>8, Zenon
    <3>3. channels'[idOf'[c]] = c => channels[idOf[c]] = c
      BY <2>3, <1>1, <1>3, <1>6
    <3> QED
      BY <2>1, <2>3, <3>1, <3>2, <3>3, <1>4, Zenon
  <2>4. c = n + 1 \/ c \in 1..n
    BY <1>1, <1>5, OneMore, Zenon
  <2> QED
    BY <2>2, <2>3, <2>4, Zenon
<1>17. AcceptersWake'
  BY Zenon DEF RoutingInv, AcceptersWake, listenerVars
<1> QED
  BY <1>10, <1>11, <1>12, <1>13, <1>14, <1>15, <1>16, <1>17, Zenon DEF RoutingInv

(* What setting the fate of one channel does.                              *)
LEMMA FateSet ==
  ASSUME RoutingInv, NEW c \in Made, NEW v \in {"new", "queued", "accepted", "killed", "closed"},
         fate' = [fate EXCEPT ![c] = v], idOf' = idOf
  PROVE  /\ fate' \in Seq({"new", "queued", "accepted", "killed", "closed"})
         /\ Len(fate') = Len(idOf')
         /\ fate'[c] = v /\ \A d \in Made \ {c} : fate'[d] = fate[d]
         /\ Made' = Made
<1> DEFINE Fates == {"new", "queued", "accepted", "killed", "closed"}
<1>1. fate \in Seq(Fates) /\ Len(fate) = Len(idOf) /\ c \in 1..Len(fate)
  BY Zenon DEF RoutingInv, RoutingTypeOK, Made
<1>2. Made = 1..Len(fate) /\ Made' = Made
  BY <1>1, Zenon DEF Made
<1> HIDE DEF Fates
<1>3. v \in Fates
  BY Zenon DEF Fates
<1>4. fate' \in Seq(Fates) /\ Len(fate') = Len(fate)
  BY <1>1, <1>3
<1>5. fate'[c] = v /\ \A d \in 1..Len(fate) \ {c} : fate'[d] = fate[d]
  BY <1>1, <1>3
<1> QED
  BY <1>1, <1>2, <1>4, <1>5, Zenon DEF Fates

(* Registered channels stay registered while the set is left alone: only   *)
(* channels that were alive begin to die.                                  *)
LEMMA SetStays ==
  ASSUME RoutingInv, UNCHANGED setVars, Live' \subseteq Live,
         \A c \in dying' : c \in dying \/ c \in Live,
         \A c \in dying' : fate'[c] \in {"killed", "closed"}
  PROVE  OneChannelPerId' /\ DyingIsRegistered'
BY Zenon DEF RoutingInv, OneChannelPerId, DyingIsRegistered, setVars

(* A listener that is closed, full, or of another reliability kills the    *)
(* channel it is handed.                                                   *)
LEMMA HandleKills ==
  ASSUME RoutingInv, NEW r \in Readers, pc[r] = "handle",
         pc' = [pc EXCEPT ![r] = "deliver"],
         fate' = [fate EXCEPT ![mine[r]] = "killed"],
         dying' = dying \cup {mine[r]},
         UNCHANGED <<setVars, packet, mine, listenerVars, asleep, awake>>
  PROVE  RoutingInv'
<1> DEFINE c == mine[r]
<1>1. c \in Made /\ fate[c] = "new" /\ c \in Live
  BY DEF RoutingInv, RoutingTypeOK, NewIsHandled, Made, Live
<1>2. UNCHANGED <<setMtx, channels, idOf, listening, closed, queue, backlogSize>>
  BY Zenon DEF setVars, listenerVars
<1>3. /\ fate' \in Seq({"new", "queued", "accepted", "killed", "closed"})
      /\ Len(fate') = Len(idOf')
      /\ fate'[c] = "killed" /\ \A d \in Made \ {c} : fate'[d] = fate[d]
      /\ Made' = Made
  BY <1>1, <1>2, FateSet, Zenon
<1>4. /\ pc' \in [Readers -> {"idle", "get", "getOrAdd", "promise", "handle", "deliver"}]
      /\ pc'[r] = "deliver" /\ \A q \in Readers \ {r} : pc'[q] = pc[q]
  BY Zenon DEF RoutingInv, RoutingTypeOK
<1>5. \A q \in Readers \ {r} : pc[q] = "handle" => mine[q] # c
  BY Zenon DEF RoutingInv, NewIsHandled
<1>6. \A q \in Readers : pc[q] = "handle" => mine[q] \in Made
  BY DEF RoutingInv, RoutingTypeOK, NewIsHandled, Made
<1> HIDE DEF c
<1>7. RoutingTypeOK'
  <2>1. /\ setMtx' \in Readers \cup {"free"}
        /\ \A q \in Readers : setMtx' = q <=> pc'[q] = "promise"
        /\ \A q \in Readers : pc'[q] # "idle" => packet'[q] \in Packets
    BY <1>2, <1>4, Zenon DEF RoutingInv, RoutingTypeOK
  <2>2. dying' \subseteq Made'
    BY <1>1, <1>3, Zenon DEF RoutingInv, RoutingTypeOK, c
  <2> QED
    BY <1>2, <1>3, <1>4, <2>1, <2>2, Zenon DEF RoutingInv, RoutingTypeOK
<1>8. PromisedIsFree'
  BY <1>2, <1>4, Zenon DEF RoutingInv, PromisedIsFree
<1>9. NewIsHandled'
  BY <1>3, <1>4, <1>5, <1>6 DEF RoutingInv, NewIsHandled
<1>10. Live' \subseteq Live
  BY <1>1, <1>3, Zenon DEF Live
<1>11. \A d \in dying' : fate'[d] \in {"killed", "closed"} /\ (d \in dying \/ d \in Live)
  BY <1>1, <1>3, Zenon DEF RoutingInv, RoutingTypeOK, DyingIsRegistered, c
<1>12. OneChannelPerId' /\ DyingIsRegistered'
  BY <1>10, <1>11, SetStays, Zenon
<1>13. NoChannelForgotten'
  <2> SUFFICES ASSUME NEW d \in Made
               PROVE  (/\ fate[d] = "new" => \E q \in Readers : pc[q] = "handle" /\ mine[q] = d
                       /\ fate[d] = "queued" <=> ~closed /\ d \in Range(queue)
                       /\ channels[idOf[d]] = d /\ fate[d] \in {"killed", "closed"} => d \in dying)'
    BY <1>3, Zenon DEF NoChannelForgotten
  <2>1. CASE d = c
    BY <2>1, <1>1, <1>2, <1>3, Zenon DEF RoutingInv, NoChannelForgotten, c
  <2>2. CASE d # c
    BY <2>2, <1>2, <1>3, <1>4 DEF RoutingInv, NoChannelForgotten, c
  <2> QED
    BY <2>1, <2>2, Zenon
<1>14. AcceptersWake' /\ QueuedOnce'
  BY <1>2, Zenon DEF RoutingInv, AcceptersWake, QueuedOnce
<1> QED
  BY <1>7, <1>8, <1>9, <1>12, <1>13, <1>14, Zenon DEF RoutingInv

(* What a sequence holds once an element is appended.                      *)
LEMMA AppendIs ==
  ASSUME NEW S, NEW s \in Seq(S), NEW x \in S
  PROVE  /\ Append(s, x) \in Seq(S) /\ Len(Append(s, x)) = Len(s) + 1
         /\ Append(s, x)[Len(s) + 1] = x
         /\ \A i \in 1..Len(s) : Append(s, x)[i] = s[i]
         /\ Range(Append(s, x)) = Range(s) \cup {x}
<1>1. /\ Append(s, x) \in Seq(S) /\ Len(Append(s, x)) = Len(s) + 1 /\ Len(s) \in Nat
      /\ Append(s, x)[Len(s) + 1] = x
      /\ \A i \in 1..Len(s) : Append(s, x)[i] = s[i]
  OBVIOUS
<1>2. /\ Range(s) = {s[i] : i \in 1..Len(s)}
      /\ Range(Append(s, x)) = {Append(s, x)[i] : i \in 1..(Len(s) + 1)}
  BY <1>1, RangeIs, Zenon
<1>3. \A i \in 1..(Len(s) + 1) : i = Len(s) + 1 \/ i \in 1..Len(s)
  BY <1>1, OneMore, Zenon
<1>4. 1..Len(s) \subseteq 1..(Len(s) + 1) /\ Len(s) + 1 \in 1..(Len(s) + 1)
  BY <1>1
<1>5. {Append(s, x)[i] : i \in 1..(Len(s) + 1)} = {s[i] : i \in 1..Len(s)} \cup {x}
  BY <1>1, <1>3, <1>4, Zenon
<1> QED
  BY <1>1, <1>2, <1>5, Zenon

(* A signal wakes one of those that sleep, if any does.                    *)
LEMMA SignalWakes ==
  ASSUME RoutingInv, NEW w \in Signalled, asleep' = asleep \ w, awake' = awake \cup w
  PROVE  /\ asleep' \subseteq Accepters /\ awake' \subseteq Accepters
         /\ asleep' # {} => asleep # {} /\ awake' # {}
BY Zenon DEF RoutingInv, RoutingTypeOK, Signalled

(* An open listener with a backlog queues the channel and signals.         *)
LEMMA HandleQueues ==
  ASSUME RoutingInv, NEW r \in Readers, pc[r] = "handle", ~closed,
         pc' = [pc EXCEPT ![r] = "deliver"],
         fate' = [fate EXCEPT ![mine[r]] = "queued"],
         queue' = Append(queue, mine[r]), backlogSize' = backlogSize + 1,
         NEW w \in Signalled, asleep' = asleep \ w, awake' = awake \cup w,
         UNCHANGED <<setVars, packet, mine, listening, closed, dying>>
  PROVE  RoutingInv'
<1> DEFINE c == mine[r]
<1>1. c \in Made /\ fate[c] = "new" /\ c \in Live
  BY DEF RoutingInv, RoutingTypeOK, NewIsHandled, Made, Live
<1>2. UNCHANGED <<setMtx, channels, idOf>>
  BY Zenon DEF setVars
<1>3. /\ fate' \in Seq({"new", "queued", "accepted", "killed", "closed"})
      /\ Len(fate') = Len(idOf')
      /\ fate'[c] = "queued" /\ \A d \in Made \ {c} : fate'[d] = fate[d]
      /\ Made' = Made
  BY <1>1, <1>2, FateSet, Zenon
<1>4. /\ pc' \in [Readers -> {"idle", "get", "getOrAdd", "promise", "handle", "deliver"}]
      /\ pc'[r] = "deliver" /\ \A q \in Readers \ {r} : pc'[q] = pc[q]
  BY Zenon DEF RoutingInv, RoutingTypeOK
<1>5. \A q \in Readers \ {r} : pc[q] = "handle" => mine[q] # c
  BY Zenon DEF RoutingInv, NewIsHandled
<1>6. \A q \in Readers : pc[q] = "handle" => mine[q] \in Made
  BY DEF RoutingInv, RoutingTypeOK, NewIsHandled, Made
<1>7. queue \in Seq(Made) /\ backlogSize = Len(queue) /\ Len(queue) \in Nat /\ c \notin Range(queue)
  BY <1>1 DEF RoutingInv, RoutingTypeOK, NoChannelForgotten
<1>8. \A i \in 1..Len(queue) : queue[i] \in Range(queue)
  BY <1>7, RangeIs, Zenon
<1> HIDE DEF c
<1>9. /\ queue' \in Seq(Made) /\ Len(queue') = Len(queue) + 1 /\ queue'[Len(queue) + 1] = c
      /\ \A i \in 1..Len(queue) : queue'[i] = queue[i]
      /\ Range(queue') = Range(queue) \cup {c}
  BY <1>1, <1>7, AppendIs DEF c
<1>10. RoutingTypeOK'
  <2>1. /\ setMtx' \in Readers \cup {"free"}
        /\ \A q \in Readers : setMtx' = q <=> pc'[q] = "promise"
        /\ \A q \in Readers : pc'[q] # "idle" => packet'[q] \in Packets
    BY <1>2, <1>4, Zenon DEF RoutingInv, RoutingTypeOK
  <2>2. asleep' \subseteq Accepters /\ awake' \subseteq Accepters
    BY SignalWakes, Zenon
  <2>3. queue' \in Seq(Made') /\ backlogSize' = Len(queue') /\ dying' \subseteq Made'
    BY <1>3, <1>7, <1>9, Zenon DEF RoutingInv, RoutingTypeOK
  <2> QED
    BY <1>2, <1>3, <1>4, <2>1, <2>2, <2>3, Zenon DEF RoutingInv, RoutingTypeOK
<1>11. PromisedIsFree'
  BY <1>2, <1>4, Zenon DEF RoutingInv, PromisedIsFree
<1>12. NewIsHandled'
  BY <1>3, <1>4, <1>5, <1>6 DEF RoutingInv, NewIsHandled
<1>13. OneChannelPerId' /\ DyingIsRegistered'
  <2>1. Live' \subseteq Live
    BY <1>1, <1>3, Zenon DEF Live
  <2>2. \A d \in dying' : fate'[d] \in {"killed", "closed"} /\ d \in dying
    BY <1>1, <1>3, Zenon DEF RoutingInv, RoutingTypeOK, DyingIsRegistered
  <2> QED
    BY <2>1, <2>2, SetStays, Zenon
<1>14. QueuedOnce'
  <2> SUFFICES ASSUME NEW i \in 1..(Len(queue) + 1), NEW j \in 1..(Len(queue) + 1),
                      queue'[i] = queue'[j]
               PROVE  i = j
    BY <1>9, Zenon DEF QueuedOnce
  <2>1. (i = Len(queue) + 1 \/ i \in 1..Len(queue)) /\ (j = Len(queue) + 1 \/ j \in 1..Len(queue))
    BY <1>7, OneMore, Zenon
  <2> QED
    BY <2>1, <1>7, <1>8, <1>9 DEF RoutingInv, QueuedOnce
<1>15. NoChannelForgotten'
  <2> SUFFICES ASSUME NEW d \in Made
               PROVE  (/\ fate[d] = "new" => \E q \in Readers : pc[q] = "handle" /\ mine[q] = d
                       /\ fate[d] = "queued" <=> ~closed /\ d \in Range(queue)
                       /\ channels[idOf[d]] = d /\ fate[d] \in {"killed", "closed"} => d \in dying)'
    BY <1>3, Zenon DEF NoChannelForgotten
  <2>1. CASE d = c
    BY <2>1, <1>3, <1>9, Zenon
  <2>2. CASE d # c
    <3>1. /\ fate[d] = "new" => \E q \in Readers : pc[q] = "handle" /\ mine[q] = d
          /\ fate[d] = "queued" <=> ~closed /\ d \in Range(queue)
          /\ channels[idOf[d]] = d /\ fate[d] \in {"killed", "closed"} => d \in dying
      BY Zenon DEF RoutingInv, NoChannelForgotten
    <3>2. fate'[d] = fate[d] /\ (d \in Range(queue') <=> d \in Range(queue))
      BY <2>2, <1>3, <1>9, Zenon
    <3>3. \A q \in Readers : pc[q] = "handle" /\ mine[q] = d => pc'[q] = "handle" /\ mine'[q] = d
      BY <2>2, <1>4, Zenon DEF c
    <3> QED
      BY <3>1, <3>2, <3>3, <1>2, Zenon
  <2> QED
    BY <2>1, <2>2, Zenon
<1>16. AcceptersWake'
  BY SignalWakes, Zenon DEF RoutingInv, AcceptersWake
<1> QED
  BY <1>10, <1>11, <1>12, <1>13, <1>14, <1>15, <1>16, Zenon DEF RoutingInv

(* The hook of a closed channel removes its own id: no other channel is    *)
(* registered there.                                                       *)
LEMMA UnregisterKeeps ==
  ASSUME RoutingInv, NEW c \in Made, Unregister(c)
  PROVE  RoutingInv'
<1>1. /\ c \in dying /\ setMtx = "free" /\ dying' = dying \ {c}
      /\ channels' = [channels EXCEPT ![idOf[c]] = 0]
      /\ UNCHANGED <<setMtx, idOf, fate, pc, packet, mine, listening, closed, queue, backlogSize, asleep, awake>>
  BY Zenon DEF Unregister, readerVars, listenerVars
<1>2. fate[c] \in {"killed", "closed"} /\ channels[idOf[c]] = c /\ idOf[c] \in Ids /\ Made' = Made
  BY <1>1 DEF RoutingInv, RoutingTypeOK, DyingIsRegistered, Made
<1>3. 0 \in 0..Len(idOf) /\ c # 0 /\ \A d \in Made : d # 0
  BY DEF RoutingInv, RoutingTypeOK, Made
<1>4. /\ channels' \in [Ids -> 0..Len(idOf)] /\ channels'[idOf[c]] = 0
      /\ \A k \in Ids \ {idOf[c]} : channels'[k] = channels[k]
  BY <1>1, <1>2, <1>3, Zenon DEF RoutingInv, RoutingTypeOK
<1>5. \A d \in Made \ {c} : idOf[d] \in Ids /\ (channels[idOf[d]] = d => idOf[d] # idOf[c])
  BY <1>2 DEF RoutingInv, RoutingTypeOK, Made
<1>6. RoutingTypeOK'
  BY <1>1, <1>2, <1>4, Zenon DEF RoutingInv, RoutingTypeOK
<1>7. PromisedIsFree' /\ NewIsHandled' /\ QueuedOnce' /\ AcceptersWake'
  BY <1>1, RoutingAssumption
  DEF RoutingInv, RoutingTypeOK, PromisedIsFree, NewIsHandled, QueuedOnce, AcceptersWake
<1>8. DyingIsRegistered'
  BY <1>1, <1>2, <1>4, <1>5, Zenon DEF RoutingInv, RoutingTypeOK, DyingIsRegistered
<1>9. OneChannelPerId'
  BY <1>1, <1>2, <1>4, <1>5, Zenon DEF RoutingInv, OneChannelPerId, Live
<1>10. NoChannelForgotten'
  <2> SUFFICES ASSUME NEW d \in Made
               PROVE  (/\ fate[d] = "new" => \E q \in Readers : pc[q] = "handle" /\ mine[q] = d
                       /\ fate[d] = "queued" <=> ~closed /\ d \in Range(queue)
                       /\ channels[idOf[d]] = d /\ fate[d] \in {"killed", "closed"} => d \in dying)'
    BY <1>2, Zenon DEF NoChannelForgotten
  <2>1. channels'[idOf[d]] = d => d # c /\ channels[idOf[d]] = d
    <3>1. idOf[d] \in Ids
      BY DEF RoutingInv, RoutingTypeOK, Made
    <3> QED
      BY <3>1, <1>3, <1>4, Zenon
  <2> QED
    BY <2>1, <1>1, Zenon DEF RoutingInv, NoChannelForgotten
<1> QED
  BY <1>6, <1>7, <1>8, <1>9, <1>10, Zenon DEF RoutingInv

(* What is left of a sequence without its first element.                   *)
LEMMA TailIs ==
  ASSUME NEW S, NEW s \in Seq(S), Len(s) > 0
  PROVE  /\ Tail(s) \in Seq(S) /\ Len(Tail(s)) = Len(s) - 1 /\ Head(s) = s[1] /\ Head(s) \in S
         /\ \A i \in 1..(Len(s) - 1) : Tail(s)[i] = s[i + 1]
         /\ Range(s) = Range(Tail(s)) \cup {Head(s)}
<1>1. /\ Tail(s) \in Seq(S) /\ Len(Tail(s)) = Len(s) - 1 /\ Head(s) = s[1] /\ Head(s) \in S
      /\ \A i \in 1..(Len(s) - 1) : Tail(s)[i] = s[i + 1]
      /\ Len(s) \in Nat
  OBVIOUS
<1>2. /\ Range(s) = {s[i] : i \in 1..Len(s)}
      /\ Range(Tail(s)) = {Tail(s)[i] : i \in 1..(Len(s) - 1)}
  <2>1. Range(s) = {s[i] : i \in 1..Len(s)}
    BY RangeIs, Zenon
  <2>2. Range(Tail(s)) = {Tail(s)[i] : i \in 1..Len(Tail(s))}
    BY <1>1, RangeIs, Zenon
  <2> QED
    BY <2>1, <2>2, <1>1, Zenon
<1>3. \A i \in 1..Len(s) : i = 1 \/ (i - 1 \in 1..(Len(s) - 1) /\ i = (i - 1) + 1)
  BY <1>1
<1>4. 1 \in 1..Len(s) /\ \A i \in 1..(Len(s) - 1) : i + 1 \in 1..Len(s)
  BY <1>1
<1>5. \A i \in 1..Len(s) : s[i] = Head(s) \/ \E j \in 1..(Len(s) - 1) : Tail(s)[j] = s[i]
  BY <1>1, <1>3, Zenon
<1>6. Head(s) \in {s[i] : i \in 1..Len(s)}
  BY <1>1, <1>4, Zenon
<1>7. {Tail(s)[i] : i \in 1..(Len(s) - 1)} \subseteq {s[i] : i \in 1..Len(s)}
  BY <1>1, <1>4
<1> QED
  BY <1>1, <1>2, <1>5, <1>6, <1>7

(* An accepter takes the first channel of the queue.                       *)
LEMMA AcceptTakes ==
  ASSUME RoutingInv, ~closed, backlogSize > 0,
         queue' = Tail(queue), backlogSize' = backlogSize - 1,
         fate' = [fate EXCEPT ![Head(queue)] = "accepted"],
         \E w \in (IF backlogSize' > 0 THEN Signalled ELSE {{}}) :
             asleep' = asleep \ w /\ awake' = awake \cup w,
         UNCHANGED <<setVars, dying, readerVars, listening, closed>>
  PROVE  RoutingInv'
<1> DEFINE c == Head(queue)
<1>1. queue \in Seq(Made) /\ backlogSize = Len(queue) /\ Len(queue) \in Nat /\ Len(queue) > 0
  BY DEF RoutingInv, RoutingTypeOK
<1>2. /\ queue' \in Seq(Made) /\ Len(queue') = Len(queue) - 1 /\ c = queue[1] /\ c \in Made
      /\ \A i \in 1..(Len(queue) - 1) : queue'[i] = queue[i + 1]
      /\ Range(queue) = Range(queue') \cup {c}
  BY <1>1, TailIs, Zenon
<1>3. UNCHANGED <<setMtx, channels, idOf, pc, packet, mine>>
  BY Zenon DEF setVars, readerVars
<1>4. fate[c] = "queued" /\ c \in Live
  BY <1>2, Zenon DEF RoutingInv, NoChannelForgotten, Live
<1>5. /\ fate' \in Seq({"new", "queued", "accepted", "killed", "closed"})
      /\ Len(fate') = Len(idOf')
      /\ fate'[c] = "accepted" /\ \A d \in Made \ {c} : fate'[d] = fate[d]
      /\ Made' = Made
  BY <1>2, <1>3, FateSet, Zenon
<1> HIDE DEF c
<1>6. \A i \in 1..(Len(queue) - 1) : i + 1 \in 1..Len(queue) /\ i + 1 # 1
  BY <1>1
<1>7. 1 \in 1..Len(queue)
  BY <1>1
<1>8. \A i \in 1..(Len(queue) - 1) : queue'[i] # c
  BY <1>2, <1>6, <1>7, Zenon DEF RoutingInv, QueuedOnce
<1>9. c \notin Range(queue')
  <2>1. queue' \in Seq(Made) /\ \A i \in 1..Len(queue') : queue'[i] # c
    BY <1>2, <1>8, Zenon
  <2> QED
    BY <2>1, NotIn, Zenon
<1>10. /\ asleep' \subseteq Accepters /\ awake' \subseteq Accepters
       /\ asleep' # {} => asleep # {} /\ (backlogSize' > 0 => awake' # {})
  <2>1. CASE backlogSize' > 0
    <3>1. PICK w \in Signalled : asleep' = asleep \ w /\ awake' = awake \cup w
      BY <2>1, Zenon
    <3>2. /\ asleep' \subseteq Accepters /\ awake' \subseteq Accepters
          /\ asleep' # {} => asleep # {} /\ awake' # {}
      BY <3>1, SignalWakes, Zenon
    <3> QED
      BY <3>2, Zenon
  <2>2. CASE ~(backlogSize' > 0)
    BY <2>2, Zenon DEF RoutingInv, RoutingTypeOK
  <2> QED
    BY <2>1, <2>2, Zenon
<1>11. RoutingTypeOK'
  <2>1. queue' \in Seq(Made') /\ backlogSize' = Len(queue') /\ dying' \subseteq Made'
    BY <1>1, <1>2, <1>5, Zenon DEF RoutingInv, RoutingTypeOK
  <2> QED
    BY <2>1, <1>3, <1>5, <1>10, Zenon DEF RoutingInv, RoutingTypeOK
<1>12. PromisedIsFree'
  BY <1>3, Zenon DEF RoutingInv, PromisedIsFree
<1>13. NewIsHandled'
  <2>1. \A q \in Readers : pc[q] = "handle" => mine[q] \in Made /\ mine[q] # c
    BY <1>4 DEF RoutingInv, RoutingTypeOK, NewIsHandled, Made
  <2> QED
    BY <2>1, <1>3, <1>5, Zenon DEF RoutingInv, NewIsHandled
<1>14. OneChannelPerId' /\ DyingIsRegistered'
  <2>1. Live' \subseteq Live
    BY <1>2, <1>4, <1>5, Zenon DEF Live
  <2>2. \A d \in dying' : fate'[d] \in {"killed", "closed"} /\ d \in dying
    BY <1>4, <1>5, Zenon DEF RoutingInv, RoutingTypeOK, DyingIsRegistered
  <2> QED
    BY <2>1, <2>2, SetStays, Zenon
<1>15. QueuedOnce'
  <2> SUFFICES ASSUME NEW i \in 1..(Len(queue) - 1), NEW j \in 1..(Len(queue) - 1),
                      queue'[i] = queue'[j]
               PROVE  i = j
    BY <1>2, Zenon DEF QueuedOnce
  <2>1. i + 1 = j + 1
    BY <1>2, <1>6, Zenon DEF RoutingInv, QueuedOnce
  <2> QED
    BY <2>1
<1>16. NoChannelForgotten'
  <2> SUFFICES ASSUME NEW d \in Made
               PROVE  (/\ fate[d] = "new" => \E q \in Readers : pc[q] = "handle" /\ mine[q] = d
                       /\ fate[d] = "queued" <=> ~closed /\ d \in Range(queue)
                       /\ channels[idOf[d]] = d /\ fate[d] \in {"killed", "closed"} => d \in dying)'
    BY <1>5, Zenon DEF NoChannelForgotten
  <2>1. CASE d = c
    BY <2>1, <1>5, <1>9, Zenon
  <2>2. CASE d # c
    BY <2>2, <1>2, <1>3, <1>5 DEF RoutingInv, NoChannelForgotten
  <2> QED
    BY <2>1, <2>2, Zenon
<1>17. AcceptersWake'
  BY <1>10, Zenon DEF RoutingInv, AcceptersWake
<1> QED
  BY <1>11, <1>12, <1>13, <1>14, <1>15, <1>16, <1>17, Zenon DEF RoutingInv

(* AcceptChannel: an accepter sleeps, takes a channel, or is told that the *)
(* listener is closed.                                                     *)
LEMMA AcceptKeeps ==
  ASSUME RoutingInv, NEW a \in Accepters, Accept(a)
  PROVE  RoutingInv'
<1>1. UNCHANGED <<setVars, dying, readerVars, listening, closed>>
  BY Zenon DEF Accept
<1>2. CASE /\ ~closed /\ backlogSize > 0
           /\ queue' = Tail(queue)
           /\ backlogSize' = backlogSize - 1
           /\ fate' = [fate EXCEPT ![Head(queue)] = "accepted"]
           /\ \E w \in (IF backlogSize' > 0 THEN Signalled ELSE {{}}) :
                asleep' = asleep \ w /\ awake' = awake \cup w
  BY <1>1, <1>2, AcceptTakes, Zenon
<1>3. CASE /\ UNCHANGED <<queue, backlogSize, fate>>
           /\ asleep' \subseteq Accepters /\ awake' \subseteq Accepters
           /\ asleep' # {} => ~closed /\ (backlogSize > 0 => awake' # {})
  <2>1. UNCHANGED <<setMtx, channels, idOf, pc, packet, mine, dying, listening, closed, queue, backlogSize, fate>>
    BY <1>1, <1>3, Zenon DEF setVars, readerVars
  <2>2. Made' = Made
    BY <2>1, Zenon DEF Made
  <2>3. RoutingTypeOK'
    BY <2>1, <2>2, <1>3, Zenon DEF RoutingInv, RoutingTypeOK
  <2>4. PromisedIsFree' /\ NewIsHandled'
    BY <2>1, Zenon DEF RoutingInv, PromisedIsFree, NewIsHandled
  <2>5. DyingIsRegistered' /\ QueuedOnce'
    BY <2>1, <2>2, Zenon DEF RoutingInv, DyingIsRegistered, QueuedOnce
  <2>6. OneChannelPerId' /\ NoChannelForgotten'
    BY <2>1, <2>2, Zenon DEF RoutingInv, OneChannelPerId, Live, NoChannelForgotten
  <2>7. AcceptersWake'
    BY <2>1, <1>3, Zenon DEF AcceptersWake
  <2> QED
    BY <2>3, <2>4, <2>5, <2>6, <2>7, Zenon DEF RoutingInv
<1>4. CASE /\ ~closed /\ backlogSize = 0
           /\ asleep' = asleep \cup {a} /\ awake' = awake \ {a}
           /\ UNCHANGED <<queue, backlogSize, fate>>
  BY <1>3, <1>4 DEF RoutingInv, RoutingTypeOK
<1>5. CASE /\ closed
           /\ awake' = awake \ {a}
           /\ UNCHANGED <<queue, backlogSize, fate, asleep>>
  BY <1>3, <1>5, Zenon DEF RoutingInv, RoutingTypeOK, AcceptersWake
<1> QED
  BY <1>2, <1>4, <1>5, Zenon DEF Accept

(* Listener.Close kills what it has queued, and wakes all that sleep.      *)
LEMMA ListenerCloseKeeps ==
  ASSUME RoutingInv, ListenerClose
  PROVE  RoutingInv'
<1> DEFINE Fates == {"new", "queued", "accepted", "killed", "closed"}
           n == Len(idOf)
<1>1. /\ ~closed /\ closed' = TRUE /\ listening' = FALSE
      /\ dying' = dying \cup Range(queue) /\ asleep' = {} /\ awake' = awake \cup asleep
      /\ UNCHANGED <<setMtx, channels, idOf, pc, packet, mine, queue, backlogSize>>
      /\ UNCHANGED setVars
  BY Zenon DEF ListenerClose, setVars, readerVars
<1>2. fate' = [c \in 1..n |-> IF fate[c] = "queued" THEN "killed" ELSE fate[c]]
  BY Zenon DEF ListenerClose, Made
<1>3. n \in Nat /\ fate \in Seq(Fates) /\ Len(fate) = n /\ Made = 1..n
  BY DEF RoutingInv, RoutingTypeOK, Made
<1>4. Made' = Made
  BY <1>1, Zenon DEF Made
<1> HIDE DEF n
<1>5. \A c \in 1..n : fate[c] \in Fates
  BY <1>3
<1>6. fate' \in [1..n -> Fates]
  BY <1>2, <1>5, Zenon
<1>7. fate' \in Seq(Fates) /\ Len(fate') = n
  BY <1>3, <1>6
<1>8. \A c \in Made : fate'[c] = IF fate[c] = "queued" THEN "killed" ELSE fate[c]
  BY <1>2, <1>3, Zenon
<1>9. queue \in Seq(Made) /\ Range(queue) \subseteq Made
  <2>1. queue \in Seq(Made)
    BY Zenon DEF RoutingInv, RoutingTypeOK
  <2> QED
    BY <2>1, ElementIs, Zenon
<1>10. \A c \in Made : fate[c] = "queued" <=> c \in Range(queue)
  BY <1>1, Zenon DEF RoutingInv, NoChannelForgotten
<1>11. RoutingTypeOK'
  <2>1. dying' \subseteq Made' /\ queue' \in Seq(Made') /\ asleep' \subseteq Accepters /\ awake' \subseteq Accepters
    BY <1>1, <1>4, <1>9, Zenon DEF RoutingInv, RoutingTypeOK
  <2> QED
    BY <2>1, <1>1, <1>7, Zenon DEF RoutingInv, RoutingTypeOK, n
<1>12. PromisedIsFree' /\ QueuedOnce' /\ AcceptersWake'
  BY <1>1, Zenon DEF RoutingInv, PromisedIsFree, QueuedOnce, AcceptersWake
<1>13. NewIsHandled'
  <2>1. \A q \in Readers : pc[q] = "handle" => mine[q] \in Made
    BY <1>3 DEF RoutingInv, RoutingTypeOK, NewIsHandled, n
  <2> QED
    BY <2>1, <1>1, <1>8, Zenon DEF RoutingInv, NewIsHandled
<1>14. OneChannelPerId' /\ DyingIsRegistered'
  <2>1. Live' \subseteq Live
    BY <1>4, <1>8, Zenon DEF Live
  <2>2. \A d \in Range(queue) : d \in Live /\ fate'[d] = "killed"
    BY <1>8, <1>9, <1>10, Zenon DEF Live
  <2>3. \A d \in dying : fate'[d] \in {"killed", "closed"}
    BY <1>8, Zenon DEF RoutingInv, RoutingTypeOK, DyingIsRegistered
  <2> QED
    BY <1>1, <2>1, <2>2, <2>3, SetStays, Zenon
<1>15. NoChannelForgotten'
  <2> SUFFICES ASSUME NEW d \in Made
               PROVE  (/\ fate[d] = "new" => \E q \in Readers : pc[q] = "handle" /\ mine[q] = d
                       /\ fate[d] = "queued" <=> ~closed /\ d \in Range(queue)
                       /\ channels[idOf[d]] = d /\ fate[d] \in {"killed", "closed"} => d \in dying)'
    BY <1>4, Zenon DEF NoChannelForgotten
  <2>1. fate'[d] # "queued"
    BY <1>8, Zenon
  <2>2. fate'[d] = "new" => fate[d] = "new"
    BY <1>8, Zenon
  <2>3. fate'[d] \in {"killed", "closed"} => fate[d] \in {"killed", "closed"} \/ d \in Range(queue)
    BY <1>8, <1>10, Zenon
  <2> QED
    BY <2>1, <2>2, <2>3, <1>1, Zenon DEF RoutingInv, NoChannelForgotten
<1> QED
  BY <1>11, <1>12, <1>13, <1>14, <1>15, Zenon DEF RoutingInv

(* The application closes a channel that it accepted.                      *)
LEMMA ChannelCloseKeeps ==
  ASSUME RoutingInv, NEW c \in Made, ChannelClose(c)
  PROVE  RoutingInv'
<1>1. /\ fate[c] = "accepted" /\ fate' = [fate EXCEPT ![c] = "closed"] /\ dying' = dying \cup {c}
      /\ UNCHANGED <<setMtx, channels, idOf, pc, packet, mine, listening, closed, queue, backlogSize, asleep, awake>>
      /\ UNCHANGED setVars
  BY Zenon DEF ChannelClose, setVars, readerVars, listenerVars
<1>2. /\ fate' \in Seq({"new", "queued", "accepted", "killed", "closed"})
      /\ Len(fate') = Len(idOf')
      /\ fate'[c] = "closed" /\ \A d \in Made \ {c} : fate'[d] = fate[d]
      /\ Made' = Made
  BY <1>1, FateSet, Zenon
<1>3. RoutingTypeOK'
  BY <1>1, <1>2, Zenon DEF RoutingInv, RoutingTypeOK
<1>4. PromisedIsFree' /\ QueuedOnce' /\ AcceptersWake'
  BY <1>1, Zenon DEF RoutingInv, PromisedIsFree, QueuedOnce, AcceptersWake
<1>5. NewIsHandled'
  <2>1. \A q \in Readers : pc[q] = "handle" => mine[q] \in Made /\ mine[q] # c
    BY <1>1 DEF RoutingInv, RoutingTypeOK, NewIsHandled, Made
  <2> QED
    BY <2>1, <1>1, <1>2, Zenon DEF RoutingInv, NewIsHandled
<1>6. OneChannelPerId' /\ DyingIsRegistered'
  <2>1. Live' \subseteq Live /\ c \in Live
    BY <1>1, <1>2, Zenon DEF Live
  <2>2. \A d \in dying' : fate'[d] \in {"killed", "closed"}
    BY <1>1, <1>2, Zenon DEF RoutingInv, RoutingTypeOK, DyingIsRegistered
  <2> QED
    BY <1>1, <2>1, <2>2, SetStays, Zenon
<1>7. NoChannelForgotten'
  <2> SUFFICES ASSUME NEW d \in Made
               PROVE  (/\ fate[d] = "new" => \E q \in Readers : pc[q] = "handle" /\ mine[q] = d
                       /\ fate[d] = "queued" <=> ~closed /\ d \in Range(queue)
                       /\ channels[idOf[d]] = d /\ fate[d] \in {"killed", "closed"} => d \in dying)'
    BY <1>2, Zenon DEF NoChannelForgotten
  <2>1. CASE d = c
    BY <2>1, <1>1, <1>2, Zenon DEF RoutingInv, NoChannelForgotten
  <2>2. CASE d # c
    <3>1. /\ fate[d] = "new" => \E q \in Readers : pc[q] = "handle" /\ mine[q] = d
          /\ fate[d] = "queued" <=> ~closed /\ d \in Range(queue)
          /\ channels[idOf[d]] = d /\ fate[d] \in {"killed", "closed"} => d \in dying
      BY Zenon DEF RoutingInv, NoChannelForgotten
    <3>2. fate'[d] = fate[d]
      BY <2>2, <1>2, Zenon
    <3> QED
      BY <3>1, <3>2, <1>1, Zenon
  <2> QED
    BY <2>1, <2>2, Zenon
<1> QED
  BY <1>3, <1>4, <1>5, <1>6, <1>7, Zenon DEF RoutingInv

(* Each step of receivedPacket, of the listener and of the hooks keeps it. *)
LEMMA RoutingStepInv == RoutingInv /\ [RoutingNext]_routingVars => RoutingInv'
<1> SUFFICES ASSUME RoutingInv, [RoutingNext]_routingVars PROVE RoutingInv'
  OBVIOUS
<1>1. CASE \E r \in Readers : Get(r)
  BY <1>1, GetKeeps, Zenon
<1>2. CASE \E r \in Readers : Promise(r)
  <2>1. PICK r \in Readers : Promise(r)
    BY <1>2, Zenon
  <2>2. CASE Done(r) /\ UNCHANGED <<channels, idOf, fate>>
    BY <2>1, <2>2, DoneKeeps, Zenon DEF Promise
  <2>3. CASE ~(Done(r) /\ UNCHANGED <<channels, idOf, fate>>)
    BY <2>1, <2>3, PromiseKeeps, Zenon DEF Promise
  <2> QED
    BY <2>2, <2>3, Zenon
<1>3. CASE \E r \in Readers : Handle(r)
  <2>1. PICK r \in Readers : Handle(r)
    BY <1>3
  <2>2. CASE dying' = dying \cup {mine[r]} /\ fate' = [fate EXCEPT ![mine[r]] = "killed"]
             /\ UNCHANGED <<queue, backlogSize, asleep, awake>>
    BY <2>1, <2>2, HandleKills, Zenon DEF Handle, listenerVars
  <2>3. CASE /\ ~closed /\ queue' = Append(queue, mine[r]) /\ backlogSize' = backlogSize + 1
             /\ fate' = [fate EXCEPT ![mine[r]] = "queued"] /\ UNCHANGED dying
             /\ \E w \in Signalled : asleep' = asleep \ w /\ awake' = awake \cup w
    BY <2>1, <2>3, HandleQueues, Zenon DEF Handle
  <2> QED
    BY <2>1, <2>2, <2>3, Zenon DEF Handle
<1>4. CASE \E r \in Readers : Deliver(r)
  BY <1>4, DoneKeeps, Zenon DEF Deliver, setVars
<1>5. CASE \E r \in Readers, p \in Packets : Receive(r, p)
  BY <1>5, ReceiveKeeps, Zenon
<1>6. CASE \E c \in Made : Unregister(c) \/ ChannelClose(c)
  BY <1>6, UnregisterKeeps, ChannelCloseKeeps, Zenon
<1>7. CASE \E a \in Accepters : Accept(a)
  BY <1>7, AcceptKeeps
<1>8. CASE ListenerClose
  BY <1>8, ListenerCloseKeeps, Zenon
<1>9. CASE UNCHANGED routingVars
  <2>1. UNCHANGED <<setMtx, channels, idOf, pc, packet, mine, fate, dying, listening, closed, queue,
                    backlogSize, asleep, awake>>
    BY <1>9, Zenon DEF routingVars, setVars, readerVars, listenerVars
  <2>2. Made' = Made
    BY <2>1, Zenon DEF Made
  <2>3. RoutingTypeOK' /\ PromisedIsFree' /\ NewIsHandled'
    BY <2>1, <2>2, Zenon DEF RoutingInv, RoutingTypeOK, PromisedIsFree, NewIsHandled
  <2>4. DyingIsRegistered' /\ QueuedOnce'
    BY <2>1, <2>2, Zenon DEF RoutingInv, DyingIsRegistered, QueuedOnce
  <2>5. OneChannelPerId' /\ NoChannelForgotten' /\ AcceptersWake'
    BY <2>1, <2>2, Zenon DEF RoutingInv, OneChannelPerId, Live, NoChannelForgotten, AcceptersWake
  <2> QED
    BY <2>3, <2>4, <2>5, Zenon DEF RoutingInv
<1> QED
  BY <1>1, <1>2, <1>3, <1>4, <1>5, <1>6, <1>7, <1>8, <1>9, Zenon DEF RoutingNext

(* Whatever the order of the readers, the accepters, the hooks and Close,  *)
(* a live channel gets the packets of its id, none is forgotten, and no    *)
(* accepter sleeps while one waits (receivedPacket, GetOrAdd, handle,      *)
(* AcceptChannel, Close).                                                  *)
THEOREM RoutingIsSound == RoutingSpec => []ChannelsAreRouted
<1>1. RoutingInv => ChannelsAreRouted
  BY Zenon DEF RoutingInv, ChannelsAreRouted
<1> QED
  BY RoutingInitInv, RoutingStepInv, <1>1, PTL DEF RoutingSpec

-----------------------------------------------------------------------------
(* The timers of an exchange                                               *)

(* What resetExpire leaves is what Supervised asks for, whatever it finds. *)
LEMMA ResetSupervises ==
  ASSUME NEW set, NEW s, NEW timers, NEW others, ResetExpire(set, s, timers, others),
         registered' = set, IsClosed(s) \/ "tBreak" \in timers \cup firing, firing' = firing
  PROVE  Supervised'
<1>1. /\ running' = IF set # {} THEN timers \ {"tExpire"}
                    ELSE IF IsOpen(s) THEN timers \cup {"tExpire"} ELSE timers
      /\ state' = IF IsOpen(s) THEN (IF set # {} THEN "active" ELSE "idle") ELSE s
  BY Zenon DEF ResetExpire
<1>2. CASE IsOpen(s)
  BY <1>1, <1>2, Zenon DEF Supervised, IsOpen, IsClosed
<1>3. CASE ~IsOpen(s)
  BY <1>1, <1>3, Zenon DEF Supervised, IsOpen, IsClosed
<1> QED
  BY <1>2, <1>3, Zenon

(* A step that leaves the state and the set of channels alone, and drops   *)
(* neither of the two timers.                                              *)
LEMMA SupervisedStays ==
  ASSUME Supervised, UNCHANGED <<state, registered>>, (ResetPending => ResetPending') \/ IsClosed(state),
         running \cup firing \subseteq running' \cup firing' \/ IsClosed(state),
         "tExpire" \in running' => "tExpire" \in running
  PROVE  Supervised'
BY Zenon DEF Supervised, IsOpen, IsClosed

(* A step of the exchange, with what else happens to it.                   *)
LEMMA SupervisedStep ==
  ASSUME Supervised, [ExchangeNext]_exchangeVars
  PROVE  Supervised'
<1> USE DEF ResetPending
<1>1. CASE Dial
  <2>1. CASE state = "initialising"
    BY <1>1, <2>1, Zenon DEF Dial, Supervised, IsOpen, IsClosed, chanVars, expireVars
  <2>2. CASE state # "initialising"
    BY <1>1, <2>2, SupervisedStays, Zenon DEF Dial, chanVars, expireVars
  <2> QED
    BY <2>1, <2>2, Zenon
<1>2. CASE DialWaits
  BY <1>2, SupervisedStays, Zenon DEF DialWaits, chanVars, expireVars
<1>3. ASSUME NEW c \in Local, OpenCall(c) \/ Open(c)
      PROVE  Supervised'
  <2>1. CASE OpenCall(c)
    BY <2>1, SupervisedStays, Zenon DEF OpenCall, chanVars, expireVars
  <2>2. CASE Open(c) /\ IsOpen(state)
    <3>1. ResetExpire(registered', state, running, [Woken EXCEPT ![c] = "ok"]) /\ firing' = firing
      BY <2>2, Zenon DEF Open, IsOpen
    <3>2. "tBreak" \in running \cup firing
      BY <2>2, Zenon DEF Supervised, IsOpen, IsClosed
    <3> QED
      BY <3>1, <3>2, ResetSupervises, Zenon
  <2>3. CASE Open(c) /\ ~IsOpen(state)
    BY <2>3, SupervisedStays, Zenon DEF Open, expireVars
  <2> QED
    BY <1>3, <2>1, <2>2, <2>3, Zenon
<1>4. ASSUME NEW isResponse \in BOOLEAN, ApplyHandshake(isResponse)
      PROVE  Supervised'
  <2> DEFINE timers == IF isResponse THEN running \cup {"tBreak"} ELSE running
  <2>1. UNCHANGED <<firing, registered, resets, hooked>>
    BY <1>4, Zenon DEF ApplyHandshake, chanVars, expireVars
  <2>2. CASE state \in {"dialing", "initialising"}
    <3>1. ResetExpire(registered, "idle", timers, Woken)
      BY <1>4, <2>2, Zenon DEF ApplyHandshake
    <3>2. "tBreak" \in timers \cup firing
      BY <2>2, Zenon DEF Supervised, IsClosed
    <3> QED
      BY <3>1, <3>2, <2>1, ResetSupervises, Zenon
  <2>3. CASE state \notin {"dialing", "initialising"}
    BY <1>4, <2>1, <2>3, SupervisedStays, Zenon DEF ApplyHandshake
  <2> QED
    BY <2>2, <2>3, Zenon
<1>5. ASSUME NEW c \in Remote, receivedPacket(c)
      PROVE  Supervised'
  BY <1>5, SupervisedStays, Zenon DEF receivedPacket, lifeVars, expireVars
<1>6. ASSUME NEW c \in Chans, Transmit(c) \/ ChannelCloses(c)
      PROVE  Supervised'
  BY <1>6, SupervisedStays, Zenon DEF Transmit, ChannelCloses, lifeVars, expireVars
<1>7. ASSUME NEW c \in Chans, AddChannel(c) \/ UnregisterChannel(c)
      PROVE  Supervised'
  <2>1. UNCHANGED <<state, running, firing, hooked>>
    BY <1>7, Zenon DEF AddChannel, UnregisterChannel, lifeVars, expireVars
  <2>2. CASE registered' = registered /\ resets' = resets
    BY <2>1, <2>2, SupervisedStays, Zenon
  <2>3. CASE resets' = resets \cup {c}
    BY <2>1, <2>3, Zenon DEF Supervised
  <2> QED
    BY <1>7, <2>2, <2>3, Zenon DEF AddChannel, UnregisterChannel
<1>8. ASSUME NEW c \in Chans, ResetAfter(c)
      PROVE  Supervised'
  BY <1>8, ResetSupervises, Zenon DEF ResetAfter, Supervised
<1>9. ASSUME NEW c \in Chans, DeliverPacket(c)
      PROVE  Supervised'
  BY <1>9, SupervisedStays, Zenon DEF DeliverPacket, expireVars
<1>10. ASSUME NEW t \in ExchangeTimers, TimerFires(t)
       PROVE  Supervised'
  BY <1>10, SupervisedStays, Zenon DEF TimerFires, chanVars, expireVars
<1>11. CASE OnDeliverHandshake
  BY <1>11, SupervisedStays, Zenon DEF OnDeliverHandshake, chanVars, expireVars
<1>12. ASSUME NEW t, NEW closedState \in {"expired", "broken"}, Expire(t, closedState)
       PROVE  Supervised'
  BY <1>12, Zenon DEF Expire, Supervised, IsClosed, IsOpen
<1>13. CASE AllChannels \/ FinishExpire
  BY <1>13, SupervisedStays, Zenon DEF AllChannels, FinishExpire, lifeVars, chanVars
<1>14. ASSUME NEW c \in Chans, BreakChannel(c)
       PROVE  Supervised'
  <2>1. UNCHANGED <<state, running, firing, resets>> /\ hooked = {}
    BY <1>14, Zenon DEF BreakChannel, lifeVars
  <2>2. CASE registered' = registered /\ hooked' = {}
    BY <2>1, <2>2, SupervisedStays, Zenon
  <2>3. CASE hooked' = {c}
    BY <2>1, <2>3, Zenon DEF Supervised
  <2>4. c \notin registered => registered \ {c} = registered
    BY Zenon
  <2> QED
    BY <1>14, <2>1, <2>2, <2>3, <2>4, Zenon DEF BreakChannel
<1>15. CASE HookReturns
  BY <1>15, ResetSupervises, Zenon DEF HookReturns, chanVars, Supervised
<1>16. CASE UNCHANGED exchangeVars
  BY <1>16, SupervisedStays, Zenon DEF exchangeVars, lifeVars, chanVars, expireVars
<1> QED
  BY <1>1, <1>2, <1>3, <1>4, <1>5, <1>6, <1>7, <1>8, <1>9, <1>10, <1>11, <1>12, <1>13, <1>14, <1>15, <1>16,
     Zenon
  DEF ExchangeNext, ChannelStep, ExpireStep, OnExpire, OnBreak

(* An exchange that is not closed has the timer running that would end it: *)
(* for every set of channels, whoever opens and closes them (resetExpire,  *)
(* onBreak, expire).                                                       *)
THEOREM TimersSupervise == ExchangeSpec => []Supervised
<1>1. ExchangeInit => Supervised
  BY Zenon DEF ExchangeInit, Supervised, IsClosed, IsOpen, ExchangeTimers
<1> QED
  BY <1>1, SupervisedStep, PTL DEF ExchangeSpec
=============================================================================
