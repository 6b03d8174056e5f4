------------------------------ MODULE Scenario ------------------------------
(***************************************************************************)
(* The tests of th-test (tools/th-test: main.go, test_*.go): a worker and  *)
(* a driver, two programs that share a directory, and whose traces a       *)
(* harness compares.                                                       *)
(*                                                                         *)
(* A role is the list of the things it does.  The channel between them is  *)
(* what e3x promises: in order and once if it is reliable, any part in any *)
(* order if not, until it breaks.                                          *)
(***************************************************************************)
EXTENDS Naturals, Sequences, SequencesExt

CONSTANT Tests    \* the tests that are run

Roles == {"worker", "driver"}

VARIABLES
  test,
  file,       \* id_worker.json: "none", "old" (of an earlier run) or "new"
  step,       \* of each role: the number of its next step; 0: it has failed
  listening,  \* the worker listens
  up,         \* packets on their way to the worker: the numbers of tokens, and End
  inbox,      \* packets in the worker's channel
  answer,     \* the worker's packet: "none", "sent", "lost" or "read"
  broken,     \* the channel is broken, for both
  reads,      \* packets that the worker has read
  asserted,   \* of each role: what it has asserted, by number
  told        \* of each role: "ready" and "done", as it has said them

vars == <<test, file, step, listening, up, inbox, answer, broken, reads, asserted, told>>
chanVars == <<listening, up, inbox, answer, broken, reads, asserted>>

End == 0
Reliable == test = "channel-reliable"

SanityScript == [worker |-> <<"ready", "sleep">>, driver |-> <<"ready", "sleep", "done">>]

NetLinkScript ==
  [worker |-> <<"open", "writeIdentity", "ready", "sleep", "close">>,
   driver |-> <<"open", "readIdentity", "ready", "dial", "sleep", "done", "close">>]

\* Mutant of DriverScript: done is said before the channel is closed.
DriverScriptEarly ==
  <<"open", "ready", "readIdentity", "dial", "write", "readAnswer", "write", "write", "done",
    "end", "closed", "close">>

WorkerScript == <<"open", "writeIdentity", "ready", "listen", "accept", "read", "closeChannel", "close">>
DriverScript ==
  <<"open", "ready", "readIdentity", "dial", "write", "readAnswer", "write", "write", "end",
    "closed", "done", "close">>

Script(role) ==
  CASE test = "sanity"   -> SanityScript[role]
    [] test = "net-link" -> NetLinkScript[role]
    [] OTHER             -> IF role = "worker" THEN WorkerScript ELSE DriverScript

At(role, what) == step[role] \in DOMAIN Script(role) /\ Script(role)[step[role]] = what
Done(role) == step' = [step EXCEPT ![role] = @ + 1]

\* An error is returned to runTest, or met in the context: the program ends with 1.
Fail(role) == step' = [step EXCEPT ![role] = 0]

-----------------------------------------------------------------------------
(* The context                                                             *)

\* Opening, dialling and closing an endpoint or a channel may fail.
Works(role, what) ==
  /\ what \in {"open", "sleep", "closeChannel", "close"} /\ At(role, what)
  /\ Done(role) \/ (what # "sleep" /\ Fail(role))
  /\ UNCHANGED <<test, file, chanVars, told>>

Says(role, what) ==
  /\ what \in {"ready", "done"} /\ At(role, what)
  /\ Done(role)
  /\ told' = [told EXCEPT ![role] = @ \cup {what}]
  /\ UNCHANGED <<test, file, chanVars>>

WriteIdentity ==
  /\ At("worker", "writeIdentity")
  /\ \/ Done("worker") /\ file' = "new"
     \/ Fail("worker") /\ UNCHANGED file
  /\ UNCHANGED <<test, chanVars, told>>

\* The file of an earlier run is as good as that of this one; one that is being written
\* does not parse.
ReadIdentity ==
  /\ At("driver", "readIdentity")
  /\ Fail("driver") \/ (file # "none" /\ Done("driver"))
  /\ UNCHANGED <<test, file, chanVars, told>>

\* Nobody answers at the addresses, or with the keys, of an earlier run.
Dial ==
  /\ At("driver", "dial")
  /\ Fail("driver") \/ (file = "new" /\ Done("driver"))
  /\ UNCHANGED <<test, file, chanVars, told>>

-----------------------------------------------------------------------------
(* The driver's side of the channel                                        *)

Asserts(role, id, token) == asserted' = [asserted EXCEPT ![role] = Append(@, <<id, token>>)]

Tokens == Len(asserted["driver"])

\* A token is asserted, then sent.
Write ==
  /\ At("driver", "write")
  /\ Asserts("driver", Tokens + 1, Tokens + 1)
  /\ IF broken THEN Fail("driver") /\ UNCHANGED up
     ELSE Done("driver") /\ up' = Append(up, Tokens + 1)
  /\ UNCHANGED <<test, file, listening, inbox, answer, broken, reads, told>>

\* What ReadPacket returns is not looked at.
ReadAnswer ==
  /\ At("driver", "readAnswer") /\ (answer = "sent" \/ broken)
  /\ Done("driver")
  /\ answer' = IF answer = "sent" THEN "read" ELSE answer
  /\ UNCHANGED <<test, file, listening, up, inbox, broken, reads, asserted, told>>

\* Close sends the end; on a reliable channel it returns when all has been acknowledged.
SendEnd ==
  /\ At("driver", "end")
  /\ IF broken THEN Fail("driver") /\ UNCHANGED up
     ELSE Done("driver") /\ up' = Append(up, End)
  /\ UNCHANGED <<test, file, listening, inbox, answer, broken, reads, asserted, told>>

Closed ==
  /\ At("driver", "closed")
  /\ \/ broken /\ Fail("driver")
     \/ ~broken /\ (Reliable => up = <<>>) /\ Done("driver")
  /\ UNCHANGED <<test, file, chanVars, told>>

-----------------------------------------------------------------------------
(* The worker's side                                                       *)

Listen ==
  /\ At("worker", "listen")
  /\ listening' = TRUE /\ Done("worker")
  /\ UNCHANGED <<test, file, up, inbox, answer, broken, reads, asserted, told>>

Accept ==
  /\ At("worker", "accept") /\ inbox # <<>>
  /\ Done("worker")
  /\ UNCHANGED <<test, file, chanVars, told>>

\* The first packet is answered; the n-th is asserted with the number n.
Read ==
  /\ At("worker", "read") /\ inbox # <<>> /\ ~broken
  /\ inbox' = Tail(inbox)
  /\ IF Head(inbox) = End THEN Done("worker") /\ UNCHANGED <<answer, reads, asserted>>
     ELSE /\ reads' = reads + 1
          /\ answer' = IF reads = 0 THEN "sent" ELSE answer
          /\ Asserts("worker", reads + 1, Head(inbox))
          /\ UNCHANGED step
  /\ UNCHANGED <<test, file, listening, up, broken, told>>

ReadFails ==
  /\ At("worker", "read") /\ broken
  /\ Fail("worker")
  /\ UNCHANGED <<test, file, chanVars, told>>

-----------------------------------------------------------------------------
(* The channel                                                             *)

\* The first packet makes the channel, if the worker listens.  A reliable channel takes
\* packets in their order; what is not acknowledged is sent again.
Deliver(i) ==
  /\ i \in DOMAIN up /\ (Reliable => i = 1) /\ listening
  /\ up' = RemoveAt(up, i) /\ inbox' = Append(inbox, up[i])
  /\ UNCHANGED <<test, file, step, listening, answer, broken, reads, asserted, told>>

Lose(i) ==
  /\ ~Reliable /\ i \in DOMAIN up
  /\ up' = RemoveAt(up, i)
  /\ UNCHANGED <<test, file, step, listening, inbox, answer, broken, reads, asserted, told>>

LoseAnswer ==
  /\ ~Reliable /\ answer = "sent" /\ answer' = "lost"
  /\ UNCHANGED <<test, file, step, listening, up, inbox, broken, reads, asserted, told>>

Break ==
  /\ Tokens > 0 /\ ~broken /\ broken' = TRUE
  /\ UNCHANGED <<test, file, step, listening, up, inbox, answer, reads, asserted, told>>

-----------------------------------------------------------------------------
Init ==
  /\ test \in Tests /\ file \in {"none", "old"}
  /\ step = [r \in Roles |-> 1] /\ told = [r \in Roles |-> {}]
  /\ listening = FALSE /\ up = <<>> /\ inbox = <<>> /\ answer = "none" /\ broken = FALSE
  /\ reads = 0 /\ asserted = [r \in Roles |-> <<>>]

Next ==
  \/ \E r \in Roles : \E w \in {"open", "sleep", "closeChannel", "close"} : Works(r, w)
  \/ \E r \in Roles : \E w \in {"ready", "done"} : Says(r, w)
  \/ WriteIdentity \/ ReadIdentity \/ Dial
  \/ Write \/ ReadAnswer \/ SendEnd \/ Closed
  \/ Listen \/ Accept \/ Read \/ ReadFails
  \/ \E i \in 1..4 : Deliver(i) \/ Lose(i)
  \/ LoseAnswer \/ Break

Spec == Init /\ [][Next]_vars

-----------------------------------------------------------------------------
(* Properties.                                                             *)

\* The roles of channel-reliable assert the same tokens with the same numbers, wherever
\* the programs are and whether or not the worker listens when the first packet comes;
\* and when the driver says that it is done the worker has asserted all three, or has
\* what is left in its channel.  A worker of channel-unreliable asserts only tokens of
\* the driver's, whose numbers may be others (ChannelReliable_Worker and _Driver).
AssertsAgree ==
  /\ \A i \in DOMAIN asserted["worker"] : \E j \in 1..Tokens :
       asserted["worker"][i][2] = asserted["driver"][j][2]
  /\ Reliable =>
       /\ \A i \in DOMAIN asserted["worker"] : asserted["worker"][i] = asserted["driver"][i]
       /\ "done" \in told["driver"] =>
            [i \in 1..reads |-> asserted["worker"][i][2]] \o SelectSeq(inbox, LAMBDA t : t # End) = <<1, 2, 3>>
=============================================================================
