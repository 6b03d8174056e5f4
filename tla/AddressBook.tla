---------------------------- MODULE AddressBook ----------------------------
(***************************************************************************)
(* The paths of one exchange (e3x/exchange_address_book.go): which pipes   *)
(* are known, on which of them handshakes are sent, and which one carries  *)
(* the channel packets.                                                    *)
(*                                                                         *)
(* Every operation that writes the book runs under x.mtx of its exchange   *)
(* (exchange.go 394-423, 778-786, 827-919), so each is one step, and one   *)
(* round of handshakes (deliverHandshake) is one step as a whole.          *)
(***************************************************************************)
EXTENDS Integers, Sequences, FiniteSets

CONSTANTS
  Pipes,                   \* the pipes the exchange may learn of
  None,
  cMaxAddressBookEntries,
  cNumBackupAddresses,
  Lifetime,                \* 2 minutes, how long a path lives without answer
  InitLatency,             \* 125 ms
  MaxTime,                 \* bound of the clock
  MayRoam                  \* pipes on which a response may come unasked: a conn
                           \* the endpoint has just accepted (endpoint.go 430-437)

ASSUME BookAssumption ==
  /\ None \notin Pipes /\ MayRoam \subseteq Pipes
  /\ cMaxAddressBookEntries \in Nat \ {0}
  /\ cNumBackupAddresses \in Nat \ {0}
  /\ Lifetime \in Nat \ {0} /\ InitLatency \in Nat /\ MaxTime \in Nat

VARIABLES
  now,
  known,        \* the entries in order, by pipe
  active,
  SendHandshakeAt, ReceivedHandshakeAt,  \* 0 stands for the zero time
  ExpireAt, Reachable, IsBackup, ewma,
  added,        \* pipes ever added
  stuck,        \* book.mtx was locked twice by the same goroutine
  answered      \* when the pipe last answered a handshake, or was added

entryVars == <<SendHandshakeAt, ReceivedHandshakeAt, ExpireAt, Reachable, IsBackup, ewma>>
vars == <<now, known, active, entryVars, added, stuck, answered>>

Book == {known[i] : i \in 1..Len(known)}

AddLatencySample(old, d) == (9 * d + 11 * old) \div 20

-----------------------------------------------------------------------------
(* AddPipe, and the new entry it makes.                                    *)

\* Mutant of AddEntry: the new path has expired before its first handshake.
AddEntryExpired(p) ==
  /\ known' = Append(known, p)
  /\ active' = IF active = None THEN p ELSE active
  /\ ExpireAt' = [ExpireAt EXCEPT ![p] = @ - Lifetime]
  /\ Reachable' = [Reachable EXCEPT ![p] = TRUE]
  /\ IsBackup' = [IsBackup EXCEPT ![p] = TRUE]
  /\ added' = added \cup {p}
  /\ answered' = [answered EXCEPT ![p] = now]
  /\ UNCHANGED <<SendHandshakeAt, ReceivedHandshakeAt, ewma>>

AddEntry(p) ==
  /\ known' = Append(known, p)
  /\ active' = IF active = None THEN p ELSE active
  /\ SendHandshakeAt' = [SendHandshakeAt EXCEPT ![p] = 0]
  /\ ReceivedHandshakeAt' = [ReceivedHandshakeAt EXCEPT ![p] = 0]
  /\ ExpireAt' = [ExpireAt EXCEPT ![p] = now + Lifetime]
  /\ Reachable' = [Reachable EXCEPT ![p] = TRUE]
  /\ IsBackup' = [IsBackup EXCEPT ![p] = TRUE]
  /\ ewma' = [ewma EXCEPT ![p] = InitLatency]
  /\ added' = added \cup {p}
  /\ answered' = [answered EXCEPT ![p] = now]

AddPipe(p) ==
  /\ ~stuck
  /\ p \notin Book /\ AddEntry(p)
  /\ UNCHANGED <<now, stuck>>

\* A response arrives on p.  For a pipe that is not in the book the code calls
\* AddPipe with the lock held, and never returns.
ReceivedHandshake(p) ==
  /\ ~stuck
  /\ p \in added \cup MayRoam
  /\ \/ /\ p \notin Book
        /\ stuck' = TRUE
        /\ UNCHANGED <<ReceivedHandshakeAt, answered>>
     \/ /\ p \in Book /\ SendHandshakeAt[p] # 0
        /\ ReceivedHandshakeAt' = [ReceivedHandshakeAt EXCEPT ![p] = now]
        /\ answered' = [answered EXCEPT ![p] = now]
        /\ UNCHANGED stuck
  /\ UNCHANGED <<now, known, active, SendHandshakeAt, ExpireAt, Reachable, IsBackup,
                 ewma, added>>

-----------------------------------------------------------------------------
(* A round of handshakes: NextHandshakeEpoch, then one handshake on every  *)
(* backup pipe that can be written to.  An empty book stays as it is.      *)

Answered(p) == SendHandshakeAt[p] # 0 /\ ReceivedHandshakeAt[p] # 0
Unanswered(p) == SendHandshakeAt[p] # 0 /\ ReceivedHandshakeAt[p] = 0

Judged ==
  /\ ExpireAt' = [p \in Pipes |->
       IF p \in Book /\ Answered(p) THEN ReceivedHandshakeAt[p] + Lifetime
       ELSE ExpireAt[p]]
  /\ Reachable' = [p \in Pipes |->
       IF p \in Book /\ Answered(p) THEN TRUE
       ELSE IF p \in Book /\ Unanswered(p) /\ ExpireAt[p] < now THEN FALSE
       ELSE Reachable[p]]
  /\ ewma' = [p \in Pipes |->
       IF p \in Book /\ Answered(p)
       THEN AddLatencySample(ewma[p], ReceivedHandshakeAt[p] - SendHandshakeAt[p])
       ELSE IF p \in Book /\ Unanswered(p)
       THEN IF ExpireAt[p] < now THEN InitLatency
            ELSE AddLatencySample(ewma[p], now - SendHandshakeAt[p])
       ELSE ewma[p]]

\* Mutant of Less: by latency alone.
LessLatency(p, q) == ewma'[p] < ewma'[q]

Less(p, q) ==
  \/ Reachable'[p] /\ ~Reachable'[q]
  \/ (Reachable'[p] <=> Reachable'[q]) /\ ewma'[p] < ewma'[q]

\* sort.Sort is not stable: any order of the entries that Less allows.
IsSorting(s) ==
  /\ {s[i] : i \in 1..Len(known)} = Book
  /\ \A i, j \in 1..Len(known) : i < j => ~Less(s[j], s[i])

Trimmed(s) == SubSeq(s, 1, IF Len(s) > cMaxAddressBookEntries
                           THEN cMaxAddressBookEntries ELSE Len(s))

HandshakePipes == {known'[i] : i \in {j \in 1..Len(known') : IsBackup'[known'[j]]}}

NextHandshakeEpoch ==
  /\ known # <<>>
  /\ Judged
  /\ \E s \in [1..Len(known) -> Book] : IsSorting(s) /\ known' = Trimmed(s)
  /\ active' = IF Reachable'[known'[1]] THEN known'[1] ELSE None
  /\ IsBackup' = [p \in Pipes |->
       IF \E i \in 1..Len(known') : known'[i] = p
       THEN Reachable'[p] /\ \E i \in 1..Len(known') : known'[i] = p /\ i <= cNumBackupAddresses
       ELSE IsBackup[p]]

\* The handshake is not sent where the pipe cannot be written.
DeliverHandshake ==
  /\ ~stuck
  /\ NextHandshakeEpoch
  /\ \E sent \in SUBSET HandshakePipes :
       SendHandshakeAt' = [p \in Pipes |-> IF p \in sent THEN now
                                           ELSE IF p \in Book THEN 0 ELSE SendHandshakeAt[p]]
  /\ ReceivedHandshakeAt' = [p \in Pipes |-> IF p \in Book THEN 0 ELSE ReceivedHandshakeAt[p]]
  /\ UNCHANGED <<now, added, stuck, answered>>

Tick ==
  /\ now < MaxTime
  /\ now' = now + 1
  /\ UNCHANGED <<known, active, entryVars, added, stuck, answered>>

Init ==
  /\ now = 1 /\ known = <<>> /\ active = None
  /\ SendHandshakeAt = [p \in Pipes |-> 0]
  /\ ReceivedHandshakeAt = [p \in Pipes |-> 0]
  /\ ExpireAt = [p \in Pipes |-> 0]
  /\ Reachable = [p \in Pipes |-> FALSE]
  /\ IsBackup = [p \in Pipes |-> FALSE]
  /\ ewma = [p \in Pipes |-> 0]
  /\ added = {} /\ stuck = FALSE
  /\ answered = [p \in Pipes |-> 0]

Next ==
  \/ \E p \in Pipes : AddPipe(p) \/ ReceivedHandshake(p)
  \/ DeliverHandshake
  \/ Tick

Spec == Init /\ [][Next]_vars

-----------------------------------------------------------------------------
(* Properties.                                                             *)

TypeOK ==
  /\ now \in Nat
  /\ known \in Seq(Pipes)
  /\ active \in Pipes \cup {None}
  /\ SendHandshakeAt \in [Pipes -> Nat] /\ ReceivedHandshakeAt \in [Pipes -> Nat]
  /\ ExpireAt \in [Pipes -> Nat]
  /\ Reachable \in [Pipes -> BOOLEAN] /\ IsBackup \in [Pipes -> BOOLEAN]
  /\ ewma \in [Pipes -> Int]
  /\ added \subseteq Pipes /\ stuck \in BOOLEAN
  /\ answered \in [Pipes -> Nat]

\* The path in use is one that is known, believed reachable, and among those on
\* which handshakes are sent: a path that dies while in use is noticed.
ActiveIsProbed ==
  active # None => active \in Book /\ Reachable[active] /\ IsBackup[active]

\* There is a path in use whenever a known path is believed reachable.
ReachableIsUsed == active = None => \A p \in Book : ~Reachable[p]

\* A path is given up only after it has been silent for its whole lifetime,
\* counted from its last answer, or from when it was added.
GivenUpOnlyWhenSilent ==
  \A p \in Book : ~Reachable[p] => answered[p] + Lifetime < now

\* A path that was given up stays given up while it is in the book: no handshake
\* is sent on it any more, so none can be answered.
GivenUpForGood ==
  [][\A p \in Book : ~Reachable[p] /\ p \in Book' => ~Reachable'[p]]_vars

\* No response locks the book twice: a pipe it arrives on is in the book, or is
\* added to it (endpoint.go 421: "always associate the conn with the exchange").
NeverStuck == ~stuck
=============================================================================
