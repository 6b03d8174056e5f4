----------------------------- MODULE SyncProofs -----------------------------
(***************************************************************************)
(* The calls that block on a channel, for every set of goroutines and      *)
(* every size of the buffers: no wake-up is lost, and the deadlines guard  *)
(* the channel.                                                            *)
(***************************************************************************)
EXTENDS ChannelSync, TLAPS

-----------------------------------------------------------------------------
(* Wake-ups                                                                *)

Places ==
  {"idle", "write", "read", "closing", "closeWrite", "closeRead", "closeWait", "failing",
   "error", "returned"}

\* Who is where: only Error goes to "error", only Close to the places of Close, and it
\* passes closeWrite with the end packet delivered.
PlacesOK ==
  /\ at \in [Threads -> Places] /\ asleep \subseteq Threads
  /\ \A t \in Threads :
       /\ at[t] \in {"failing", "error"} => t \in Failers
       /\ at[t] \in {"closing", "closeWrite", "closeRead", "closeWait"} => t \in Closers
       /\ at[t] \in {"closeRead", "closeWait"} => deliveredEnd
       /\ t \in asleep => Cond(at[t]) \in AllConds

NoError == \A t \in Failers : at[t] \in {"idle", "failing"}
CloserReturned == \E k \in Closers : at[k] = "returned"

\* A goroutine that was woken, or has not slept yet, is to look at its condition.
Awake(cnd) == \E t \in Threads \ asleep : Cond(at[t]) = cnd

\* The sleepers of each condition wait for something that has not come, or someone is
\* awake who passes the signal on.
WriteSafe ==
  \/ Sleepers("cndWrite") = {} \/ deliveredEnd \/ WriteBlocked
  \/ Awake("cndWrite") /\ ~broken /\ ~writeDeadlineReached

ReadSafe ==
  \/ Sleepers("cndRead") = {} \/ readEnd \/ CloserReturned \/ ReadBlocked
  \/ Awake("cndRead") /\ ~broken /\ ~readDeadlineReached

CloseSafe ==
  \/ Sleepers("cndClose") = {} \/ CloseBlocked
  \/ Awake("cndClose") /\ ~broken

WakeInv == PlacesOK /\ (NoError => WriteSafe /\ ReadSafe /\ CloseSafe)

-----------------------------------------------------------------------------
(* Deadlines                                                               *)

\* A timer that was created runs, or its callback is about to.
DeadlineInv ==
  /\ oSeq \in Nat /\ iSeq \in Nat
  /\ deliveredEnd => tCloseDeadline
  /\ ~broken /\ ~closed =>
       /\ (IF serverside THEN oSeq = 0 ELSE iSeq = 0) => "open" \in armed \cup fired
       /\ tCloseDeadline => "close" \in armed \cup fired

\* The timers after a write.
LEMMA WriteEffectGuards ==
  ASSUME DeadlineInv, NEW end \in BOOLEAN, NEW delivered \in BOOLEAN, WriteEffect(end, delivered),
         UNCHANGED <<serverside, iSeq>>, UNCHANGED <<broken, closed>> \/ broken' = TRUE
  PROVE  DeadlineInv'
<1>1. /\ oSeq' = oSeq + 1 /\ oSeq' # 0 /\ oSeq' \in Nat
      /\ deliveredEnd' = (deliveredEnd \/ end) /\ tCloseDeadline' = (tCloseDeadline \/ end)
  BY DEF WriteEffect, DeadlineInv
<1>2. /\ fired' = fired
      /\ armed' = (IF end /\ ~tCloseDeadline THEN armed \cup {"close"} ELSE armed)
                  \ (IF oSeq = 0 /\ serverside /\ delivered THEN {"open"} ELSE {})
  BY Zenon DEF WriteEffect
<1>3. "close" \in armed => "close" \in armed'
  BY <1>2, Zenon
<1>4. end /\ ~tCloseDeadline => "close" \in armed'
  BY <1>2, Zenon
<1>5. "open" \in armed => "open" \in armed' \/ (oSeq = 0 /\ serverside)
  BY <1>2, Zenon
<1> QED
  BY <1>1, <1>2, <1>3, <1>4, <1>5, Zenon DEF DeadlineInv

\* The timers after a read.
LEMMA TakePacketGuards ==
  ASSUME DeadlineInv, NEW t, NEW next, TakePacket(t, next)
  PROVE  DeadlineInv'
<1>1. /\ iSeq' = iSeq + 1 /\ iSeq' # 0 /\ iSeq' \in Nat
      /\ UNCHANGED <<oSeq, deliveredEnd, broken, closed, fired, tCloseDeadline, serverside>>
      /\ armed' = armed \ (IF iSeq = 0 /\ ~serverside THEN {"open"} ELSE {})
  BY DEF TakePacket, DeadlineInv, Goto, kindVars
<1> QED
  BY <1>1, Zenon DEF DeadlineInv

\* A step that leaves the counters and the flags, and drops none of the two timers.
LEMMA DeadlineStays ==
  ASSUME DeadlineInv, UNCHANGED <<oSeq, iSeq, serverside, deliveredEnd, closed, tCloseDeadline>>,
         \/ /\ broken' = broken
            /\ (armed \cup fired) \cap {"open", "close"} \subseteq armed' \cup fired'
         \/ broken' = TRUE
  PROVE  DeadlineInv'
BY Zenon DEF DeadlineInv

\* Every step on a channel keeps the invariant of the deadlines (setCloseDeadline and
\* the deadline callbacks).
LEMMA DeadlineStep ==
  ASSUME DeadlineInv, [Next]_vars
  PROVE  DeadlineInv'
<1> USE DEF streamVars, endVars, deadlineVars, timerVars, kindVars
<1>1. ASSUME NEW t \in Threads, Sleep(t)
      PROVE  DeadlineInv'
  BY <1>1, DeadlineStays, Zenon DEF Sleep
<1>2. ASSUME NEW t \in Threads, WritePacket(t) \/ ErrorWrites(t) \/ CloseWritesEnd(t)
      PROVE  DeadlineInv'
  <2>1. CASE Sleep(t)
    BY <1>1, <2>1, Zenon
  <2>2. CASE NoWrite /\ UNCHANGED <<kindVars, iSeq, broken, closed>>
    BY <2>2, DeadlineStays, Zenon DEF NoWrite
  <2>3. ASSUME NEW end \in BOOLEAN, NEW delivered \in BOOLEAN, WriteEffect(end, delivered),
               UNCHANGED <<kindVars, iSeq, closed>>, broken' = broken \/ broken' = TRUE
        PROVE  DeadlineInv'
    BY <2>3, WriteEffectGuards, Zenon
  <2>4. CASE WritePacket(t)
    BY <2>1, <2>2, <2>3, <2>4, Zenon DEF WritePacket, Goto
  <2>5. CASE ErrorWrites(t)
    BY <2>1, <2>2, <2>3, <2>5, Zenon DEF ErrorWrites, Goto
  <2>6. CASE CloseWritesEnd(t)
    BY <2>1, <2>2, <2>3, <2>6, Zenon DEF CloseWritesEnd, Goto
  <2> QED
    BY <1>2, <2>4, <2>5, <2>6, Zenon
<1>3. ASSUME NEW t \in Threads, ReadPacket(t) \/ CloseDrains(t)
      PROVE  DeadlineInv'
  <2>1. CASE Sleep(t)
    BY <1>1, <2>1
  <2>2. CASE UNCHANGED <<kindVars, streamVars, endVars, timerVars>>
    BY <2>2, DeadlineStays, Zenon
  <2>3. ASSUME NEW next, TakePacket(t, next)
        PROVE  DeadlineInv'
    BY <2>3, TakePacketGuards, Zenon
  <2> QED
    BY <1>3, <2>1, <2>2, <2>3, Zenon DEF ReadPacket, CloseDrains, Goto
<1>4. ASSUME NEW t \in Threads, ErrorCall(t)
      PROVE  DeadlineInv'
  BY <1>4, DeadlineStays, Zenon DEF ErrorCall, Goto
<1>5. ASSUME NEW t \in Threads, CloseCall(t)
      PROVE  DeadlineInv'
  BY <1>5 DEF CloseCall, Goto, SetCloseDeadline, DeadlineInv
<1>6. ASSUME NEW t \in Threads, CloseReturns(t)
      PROVE  DeadlineInv'
  BY <1>1, <1>6 DEF CloseReturns, Goto, DeadlineInv
<1>7. ASSUME NEW kind \in Kinds, ReceivedPacket(kind)
      PROVE  DeadlineInv'
  BY <1>7, DeadlineStays, Zenon DEF ReceivedPacket
<1>8. ASSUME NEW n, ReceivedAck(n)
      PROVE  DeadlineInv'
  BY <1>8, DeadlineStays, Zenon DEF ReceivedAck
<1>9. ASSUME NEW name \in Timers, Fire(name)
      PROVE  DeadlineInv'
  BY <1>9, DeadlineStays, Zenon DEF Fire
<1>10. CASE OnOpenDeadlineReached \/ OnCloseDeadlineReached \/ Kill
  BY <1>10, DeadlineStays,
     Zenon DEF OnOpenDeadlineReached, OnCloseDeadlineReached, Kill, Break, TooLate
<1>11. CASE OnReadDeadlineReached \/ OnWriteDeadlineReached
  BY <1>11, DeadlineStays, Zenon DEF OnReadDeadlineReached, OnWriteDeadlineReached
<1>12. ASSUME NEW d \in Deadlines, SetReadDeadline(d) \/ SetWriteDeadline(d) \/ SetDeadline(d)
       PROVE  DeadlineInv'
  BY <1>12, DeadlineStays, Zenon DEF SetReadDeadline, SetWriteDeadline, SetDeadline, SetTimers
<1>13. CASE UNCHANGED vars
  BY <1>13, DeadlineStays, Zenon DEF vars
<1> QED
  BY <1>2, <1>3, <1>4, <1>5, <1>6, <1>7, <1>8, <1>9, <1>10, <1>11, <1>12, <1>13, Zenon
  DEF Next, Run, Callback

(* For every set of goroutines and every size of the buffers: a channel    *)
(* that waits for its first answer, or for the end of its close, has the   *)
(* deadline running that would break it (setCloseDeadline, openDeadline,   *)
(* and the writes and reads that stop them).                               *)
THEOREM DeadlinesGuard == Spec => []DeadlineGuardsChannel
<1>1. Init => DeadlineInv
  BY DEF Init, DeadlineInv
<1>2. DeadlineInv => DeadlineGuardsChannel
  BY Zenon DEF DeadlineInv, DeadlineGuardsChannel
<1> QED
  BY <1>1, <1>2, DeadlineStep, PTL DEF Spec

-----------------------------------------------------------------------------
(* Who sleeps and who is awake                                             *)

\* The condition of each place.
LEMMA CondIs ==
  ASSUME NEW p \in Places
  PROVE  /\ Cond(p) = "cndWrite" <=> p \in {"write", "error", "closeWrite"}
         /\ Cond(p) = "cndRead" <=> p \in {"read", "closeRead"}
         /\ Cond(p) = "cndClose" <=> p = "closeWait"
         /\ Cond(p) \in AllConds <=> p \in {"write", "error", "closeWrite", "read", "closeRead", "closeWait"}
<1>1. CASE p \in {"write", "error", "closeWrite"}
  <2>1. Cond(p) = "cndWrite"
    BY <1>1, Zenon DEF Cond
  <2> QED
    BY <1>1, <2>1, Zenon DEF AllConds
<1>2. CASE p \in {"read", "closeRead"}
  <2>1. Cond(p) = "cndRead"
    BY <1>2, Zenon DEF Cond
  <2> QED
    BY <1>2, <2>1, Zenon DEF AllConds
<1>3. CASE p = "closeWait"
  <2>1. Cond(p) = "cndClose"
    BY <1>3, Zenon DEF Cond
  <2> QED
    BY <1>3, <2>1, Zenon DEF AllConds
<1>4. CASE p \in {"idle", "closing", "failing", "returned"}
  <2>1. Cond(p) = "none"
    BY <1>4, Zenon DEF Cond
  <2> QED
    BY <1>4, <2>1, Zenon DEF AllConds
<1> QED
  BY <1>1, <1>2, <1>3, <1>4, Zenon DEF Places

\* Sleepers stay where they are.
Undisturbed == \A u \in asleep : at'[u] = at[u]

\* When fewer sleep, no condition gets a sleeper.
LEMMA FewerSleep ==
  ASSUME Undisturbed, asleep' \subseteq asleep, NEW cnd, Sleepers(cnd) = {}
  PROVE  Sleepers(cnd)' = {}
BY Zenon DEF Undisturbed, Sleepers

\* A signal leaves nobody asleep, or someone awake to pass it on.
LEMMA Signalled ==
  ASSUME PlacesOK, Undisturbed, NEW cnd, NEW w \in Signal(cnd), asleep' \subseteq asleep \ w
  PROVE  Sleepers(cnd)' = {} \/ Awake(cnd)'
<1>1. CASE Sleepers(cnd) = {}
  BY <1>1, FewerSleep, Zenon
<1>2. CASE Sleepers(cnd) # {}
  <2>1. PICK s \in Sleepers(cnd) : w = {s}
    BY <1>2, Zenon DEF Signal
  <2>2. s \in asleep /\ Cond(at[s]) = cnd /\ s \in Threads
    BY Zenon DEF Sleepers, PlacesOK
  <2>3. at'[s] = at[s] /\ s \notin asleep'
    BY <2>1, <2>2, Zenon DEF Undisturbed
  <2> QED
    BY <2>2, <2>3, Zenon DEF Awake
<1> QED
  BY <1>1, <1>2, Zenon

\* A broadcast leaves nobody asleep.
LEMMA Broadcasted ==
  ASSUME Undisturbed, NEW cnds, NEW cnd \in cnds, asleep' = asleep \ Broadcast(cnds)
  PROVE  Sleepers(cnd)' = {}
BY Zenon DEF Undisturbed, Sleepers, Broadcast

\* Whoever is awake and does not move stays awake.
LEMMA AwakeStays ==
  ASSUME asleep' \subseteq asleep, NEW t, \A u \in Threads : u # t => at'[u] = at[u],
         NEW cnd, Awake(cnd), Cond(at[t]) # cnd \/ (t \in Threads \ asleep /\ Cond(at'[t]) = cnd)
  PROVE  Awake(cnd)'
BY Zenon DEF Awake

\* Going to sleep concerns one condition only.
LEMMA SleepKeeps ==
  ASSUME PlacesOK, NEW t \in Threads, t \notin asleep, Sleep(t), NEW cnd, Cond(at[t]) # cnd
  PROVE  /\ Sleepers(cnd) = {} => Sleepers(cnd)' = {}
         /\ Awake(cnd) => Awake(cnd)'
<1>1. asleep' = asleep \cup {t} /\ at' = at
  BY Zenon DEF Sleep
<1> QED
  BY <1>1, Zenon DEF Sleepers, Awake

\* A Close that has returned has returned.
LEMMA CloserStays ==
  ASSUME \A u \in Threads : at[u] = "returned" => at'[u] = "returned", CloserReturned
  PROVE  CloserReturned'
BY Zenon DEF CloserReturned, Threads

\* A step that changes nothing the writers wait for.
LEMMA KeepsWrite ==
  ASSUME WriteSafe, Sleepers("cndWrite") = {} => Sleepers("cndWrite")' = {},
         Awake("cndWrite") => Awake("cndWrite")', deliveredEnd => deliveredEnd',
         UNCHANGED <<kindVars, oSeq, oAckedSeq, iSeq, writeDeadlineReached, broken>>
  PROVE  WriteSafe'
BY Zenon DEF WriteSafe, WriteBlocked, BlockWrite, kindVars

\* A step that changes nothing the readers wait for.
LEMMA KeepsRead ==
  ASSUME ReadSafe, Sleepers("cndRead") = {} => Sleepers("cndRead")' = {},
         Awake("cndRead") => Awake("cndRead")', CloserReturned => CloserReturned',
         UNCHANGED <<kindVars, oSeq, iSeq, readBuffer, readEnd, broken, readDeadlineReached>>
  PROVE  ReadSafe'
BY Zenon DEF ReadSafe, ReadBlocked, BlockRead, kindVars

\* A step that changes nothing that Close waits for.
LEMMA KeepsClose ==
  ASSUME CloseSafe, Sleepers("cndClose") = {} => Sleepers("cndClose")' = {},
         Awake("cndClose") => Awake("cndClose")',
         UNCHANGED <<kindVars, oSeq, oAckedSeq, readEnd, broken>>
  PROVE  CloseSafe'
BY Zenon DEF CloseSafe, CloseBlocked, BlockClose, kindVars

-----------------------------------------------------------------------------
(* Places                                                                  *)

\* One goroutine moves, and nobody falls asleep.
LEMMA MovePlaces ==
  ASSUME PlacesOK, NEW t \in Threads \ asleep, NEW p \in Places,
         at' = [at EXCEPT ![t] = p], asleep' \subseteq asleep, deliveredEnd => deliveredEnd',
         p \in {"failing", "error"} => t \in Failers,
         p \in {"closing", "closeWrite", "closeRead", "closeWait"} => t \in Closers,
         p \in {"closeRead", "closeWait"} => deliveredEnd'
  PROVE  PlacesOK' /\ Undisturbed
<1>1. at' \in [Threads -> Places] /\ asleep' \subseteq Threads
  BY Zenon DEF PlacesOK
<1>2. \A u \in Threads : u # t => at'[u] = at[u]
  BY Zenon DEF PlacesOK
<1>3. at'[t] = p
  BY Zenon DEF PlacesOK
<1> QED
  BY <1>1, <1>2, <1>3, Zenon DEF PlacesOK, Undisturbed

\* Nobody moves, and nobody falls asleep.
LEMMA StayPlaces ==
  ASSUME PlacesOK, at' = at, asleep' \subseteq asleep, deliveredEnd' = deliveredEnd
  PROVE  PlacesOK' /\ Undisturbed
BY Zenon DEF PlacesOK, Undisturbed

\* One goroutine falls asleep where it waits.
LEMMA SleepPlaces ==
  ASSUME PlacesOK, NEW t \in Threads, Cond(at[t]) \in AllConds, Sleep(t)
  PROVE  PlacesOK'
BY Zenon DEF PlacesOK, Sleep, endVars

\* What a goroutine does at each place: it sleeps, or it moves on.
MovesTo(t, p) == at' = [at EXCEPT ![t] = p] /\ asleep' \subseteq asleep /\ (deliveredEnd => deliveredEnd')

\* A read of a packet is a move.
LEMMA TakeMoves ==
  ASSUME NEW t, NEW next, TakePacket(t, next)
  PROVE  MovesTo(t, next) /\ deliveredEnd' = deliveredEnd
BY Zenon DEF TakePacket, MovesTo, Goto

\* A write keeps the mark of the end packet, and an end packet sets it.
LEMMA WriteMarksEnd ==
  ASSUME NEW end, NEW delivered, WriteEffect(end, delivered)
  PROVE  (deliveredEnd => deliveredEnd') /\ (end => deliveredEnd')
<1>1. deliveredEnd' = (deliveredEnd \/ end)
  BY Zenon DEF WriteEffect
<1> QED
  BY <1>1, Zenon

\* Where a goroutine goes from each place, unless it sleeps.
LEMMA RunMoves ==
  ASSUME PlacesOK, NEW t \in Threads, Run(t)
  PROVE  /\ t \notin asleep
         /\ \/ Sleep(t) /\ Cond(at[t]) \in AllConds
            \/ /\ at[t] \in {"failing", "error", "write", "read", "closing", "closeWrite", "closeRead", "closeWait"}
               /\ MovesTo(t, "returned")
            \/ at[t] = "failing" /\ MovesTo(t, "error")
            \/ at[t] = "closing" /\ MovesTo(t, "closeWrite")
            \/ /\ at[t] \in {"closing", "closeWrite", "closeRead"}
               /\ \E p \in {"closeRead", "closeWait"} : MovesTo(t, p)
               /\ deliveredEnd'
<1> USE DEF streamVars, endVars, deadlineVars, timerVars, kindVars
<1>0. /\ at[t] \in Places
      /\ at[t] \in {"closeRead", "closeWait"} => deliveredEnd
  BY Zenon DEF PlacesOK
<1>a. at[t] \in {"write", "error", "closeWrite", "read", "closeRead", "closeWait"} =>
        Cond(at[t]) \in AllConds
  BY <1>0, CondIs, Zenon
<1>1. CASE WritePacket(t)
  <2>1. at[t] = "write" /\ t \notin asleep
    BY <1>1, Zenon DEF WritePacket, Runs
  <2>2. CASE ~WriteBlocked
    <3>1. at' = [at EXCEPT ![t] = "returned"] /\ (deliveredEnd => deliveredEnd')
      BY <1>1, <2>2, WriteMarksEnd DEF WritePacket, Goto, NoWrite
    <3>2. asleep' \subseteq asleep
      BY <1>1, <2>2, Zenon DEF WritePacket
    <3> QED
      BY <2>1, <3>1, <3>2, Zenon DEF MovesTo
  <2> QED
    BY <1>1, <1>a, <2>1, <2>2, Zenon DEF WritePacket
<1>2. CASE ReadPacket(t)
  BY <1>a, <1>2, TakeMoves DEF ReadPacket, Runs, Goto, MovesTo
<1>3. CASE ErrorCall(t)
  BY <1>0, <1>3, Zenon DEF ErrorCall, Runs, Goto, MovesTo
<1>4. CASE ErrorWrites(t)
  <2>1. at[t] = "error" /\ t \notin asleep
    BY <1>4, Zenon DEF ErrorWrites, Runs
  <2>2. CASE ~WriteBlocked
    <3>1. \/ NoWrite
          \/ \E delivered \in BOOLEAN : WriteEffect(FALSE, delivered)
      BY <1>4, <2>2, Zenon DEF ErrorWrites
    <3>2. deliveredEnd => deliveredEnd'
      BY <3>1, WriteMarksEnd, Zenon DEF NoWrite
    <3>3. at' = [at EXCEPT ![t] = "returned"] /\ asleep' \subseteq asleep
      BY <1>4, <2>2, Zenon DEF ErrorWrites, Goto
    <3> QED
      BY <2>1, <3>2, <3>3, Zenon DEF MovesTo
  <2> QED
    BY <1>4, <1>a, <2>1, <2>2, Zenon DEF ErrorWrites
<1>5. CASE CloseCall(t)
  BY <1>0, <1>5, Zenon DEF CloseCall, Runs, Goto, MovesTo
<1>6. CASE CloseWritesEnd(t)
  <2>1. at[t] = "closeWrite" /\ t \notin asleep
    BY <1>6, Zenon DEF CloseWritesEnd, Runs
  <2>2. CASE ~WriteBlocked
    <3>1. \/ NoWrite
          \/ \E delivered \in BOOLEAN : WriteEffect(TRUE, delivered)
      BY <1>6, <2>2, Zenon DEF CloseWritesEnd
    <3>2. deliveredEnd => deliveredEnd'
      BY <3>1, WriteMarksEnd, Zenon DEF NoWrite
    <3>3. asleep' = asleep
      BY <1>6, <2>2, Zenon DEF CloseWritesEnd
    <3>4. CASE at' = [at EXCEPT ![t] = "returned"]
      BY <2>1, <3>2, <3>3, <3>4, Zenon DEF MovesTo
    <3>5. CASE at' = [at EXCEPT ![t] = "closeRead"] /\ deliveredEnd'
      BY <2>1, <3>2, <3>3, <3>5, Zenon DEF MovesTo
    <3>6. \/ at' = [at EXCEPT ![t] = "returned"]
          \/ at' = [at EXCEPT ![t] = "closeRead"] /\ (deliveredEnd \/ WriteEffect(TRUE, TRUE))
      BY <1>6, <2>2, Zenon DEF CloseWritesEnd, Goto
    <3> QED
      BY <3>2, <3>4, <3>5, <3>6, WriteMarksEnd, Zenon
  <2> QED
    BY <1>6, <1>a, <2>1, <2>2, Zenon DEF CloseWritesEnd
<1>7. CASE CloseDrains(t)
  <2>1. at[t] = "closeRead" /\ t \notin asleep /\ deliveredEnd
    BY <1>0, <1>7, Zenon DEF CloseDrains, Runs
  <2>2. CASE \E p \in {"closeRead", "closeWait"} : TakePacket(t, p)
    BY <2>1, <2>2, TakeMoves, Zenon
  <2>3. CASE /\ Goto(t, IF broken \/ readDeadlineReached THEN "returned" ELSE "closeWait")
             /\ UNCHANGED <<asleep, endVars>>
    BY <2>1, <2>3, Zenon DEF Goto, MovesTo
  <2> QED
    BY <1>7, <1>a, <2>1, <2>2, <2>3, Zenon DEF CloseDrains
<1>8. CASE CloseReturns(t)
  <2>1. at[t] = "closeWait" /\ t \notin asleep
    BY <1>8, Zenon DEF CloseReturns, Runs
  <2>2. CASE ~CloseBlocked
    BY <1>8, <2>1, <2>2 DEF CloseReturns, Goto, MovesTo
  <2> QED
    BY <1>8, <1>a, <2>1, <2>2, Zenon DEF CloseReturns
<1> QED
  BY <1>1, <1>2, <1>3, <1>4, <1>5, <1>6, <1>7, <1>8, Zenon DEF Run

\* Who runs keeps the places in order, and disturbs no sleeper.
LEMMA RunPlaces ==
  ASSUME PlacesOK, NEW t \in Threads, Run(t)
  PROVE  PlacesOK' /\ Undisturbed
<1>1. CASE Sleep(t) /\ Cond(at[t]) \in AllConds
  BY <1>1, SleepPlaces, Zenon DEF Undisturbed, Sleep
<1>2. /\ t \in Threads \ asleep
      /\ at[t] \in {"failing", "error"} => t \in Failers
      /\ at[t] \in {"closing", "closeWrite", "closeRead", "closeWait"} => t \in Closers
  BY RunMoves, Zenon DEF PlacesOK
<1>3. ASSUME NEW p \in Places, MovesTo(t, p),
             p \in {"failing", "error"} => at[t] \in {"failing", "error"},
             p \in {"closing", "closeWrite", "closeRead", "closeWait"} =>
               at[t] \in {"closing", "closeWrite", "closeRead", "closeWait"},
             p \in {"closeRead", "closeWait"} => deliveredEnd'
      PROVE  PlacesOK' /\ Undisturbed
  BY <1>2, <1>3, MovePlaces, Zenon DEF MovesTo
<1> QED
  BY <1>1, <1>3, RunMoves, Zenon DEF Places

\* A peer, a timer or a setting moves nobody.
Quiet == at' = at /\ asleep' \subseteq asleep /\ deliveredEnd' = deliveredEnd

\* Every other step.
LEMMA RestIsQuiet ==
  ASSUME Next, ~\E t \in Threads : Run(t)
  PROVE  Quiet
<1> USE DEF streamVars, endVars, deadlineVars, timerVars, kindVars, Quiet
<1>1. ASSUME NEW kind \in Kinds, ReceivedPacket(kind)
      PROVE  Quiet
  BY <1>1, Zenon DEF ReceivedPacket
<1>2. ASSUME NEW n \in 1..oSeq, ReceivedAck(n)
      PROVE  Quiet
  BY <1>2, Zenon DEF ReceivedAck
<1>3. ASSUME NEW name \in Timers, Fire(name)
      PROVE  Quiet
  BY <1>3, Zenon DEF Fire
<1>4. CASE Callback \/ Kill
  BY <1>4, Zenon DEF Callback, Kill, OnOpenDeadlineReached, OnCloseDeadlineReached, Break, TooLate,
              OnReadDeadlineReached, OnWriteDeadlineReached
<1>5. ASSUME NEW d \in Deadlines, SetReadDeadline(d) \/ SetWriteDeadline(d) \/ SetDeadline(d)
      PROVE  Quiet
  BY <1>5, Zenon DEF SetReadDeadline, SetWriteDeadline, SetDeadline, SetTimers
<1> QED
  BY <1>1, <1>2, <1>3, <1>4, <1>5, Zenon DEF Next

\* The places stay in order.
LEMMA PlacesStep ==
  ASSUME PlacesOK, [Next]_vars
  PROVE  PlacesOK' /\ Undisturbed
<1>1. CASE \E t \in Threads : Run(t)
  BY <1>1, RunPlaces, Zenon
<1>2. CASE Next /\ ~\E t \in Threads : Run(t)
  BY <1>2, RestIsQuiet, StayPlaces, Zenon DEF Quiet
<1>3. CASE UNCHANGED vars
  BY <1>3, StayPlaces, Zenon DEF vars, endVars
<1> QED
  BY <1>1, <1>2, <1>3, Zenon

-----------------------------------------------------------------------------
(* No wake-up is lost                                                      *)

Safe == WriteSafe /\ ReadSafe /\ CloseSafe

\* Error was not called before, either.
LEMMA NoErrorBefore ==
  ASSUME PlacesOK, [Next]_vars, NoError'
  PROVE  NoError
<1>1. CASE at' = at
  BY <1>1, Zenon DEF NoError
<1>2. ASSUME NEW t \in Threads, Run(t), ~Sleep(t)
      PROVE  NoError
  <2>1. PICK p \in {"returned", "error", "closeWrite", "closeRead", "closeWait"} :
               at' = [at EXCEPT ![t] = p]
    BY <1>2, RunMoves, Zenon DEF MovesTo
  <2>2. at'[t] \notin {"idle", "failing"} /\ \A u \in Threads : u # t => at'[u] = at[u]
    BY <2>1, Zenon DEF PlacesOK
  <2> QED
    BY <2>2, Zenon DEF NoError, Threads
<1> QED
  BY <1>1, <1>2, RestIsQuiet, Zenon DEF Quiet, Sleep, vars

\* A goroutine goes to sleep on a condition that blocks it.
LEMMA SleepSafe ==
  ASSUME PlacesOK, Safe, NEW t \in Threads, t \notin asleep, Sleep(t),
         \/ Cond(at[t]) = "cndWrite" /\ WriteBlocked
         \/ Cond(at[t]) = "cndRead" /\ ReadBlocked
         \/ Cond(at[t]) = "cndClose" /\ CloseBlocked
  PROVE  Safe'
<1>0. /\ UNCHANGED <<kindVars, at, oSeq, oAckedSeq, iSeq, readBuffer, deliveredEnd, readEnd, broken,
                     writeDeadlineReached, readDeadlineReached>>
      /\ CloserReturned => CloserReturned'
  BY Zenon DEF Sleep, streamVars, endVars, deadlineVars, CloserReturned
<1>1. WriteSafe'
  <2>1. CASE Cond(at[t]) = "cndWrite"
    BY <1>0, <2>1, Zenon DEF WriteSafe, WriteBlocked, BlockWrite, kindVars
  <2>2. CASE Cond(at[t]) # "cndWrite"
    BY <1>0, <2>2, SleepKeeps, KeepsWrite, Zenon DEF Safe
  <2> QED
    BY <2>1, <2>2, Zenon
<1>2. ReadSafe'
  <2>1. CASE Cond(at[t]) = "cndRead"
    BY <1>0, <2>1, Zenon DEF ReadSafe, ReadBlocked, BlockRead, kindVars
  <2>2. CASE Cond(at[t]) # "cndRead"
    BY <1>0, <2>2, SleepKeeps, KeepsRead, Zenon DEF Safe
  <2> QED
    BY <2>1, <2>2, Zenon
<1>3. CloseSafe'
  <2>1. CASE Cond(at[t]) = "cndClose"
    BY <1>0, <2>1, Zenon DEF CloseSafe, CloseBlocked, BlockClose, kindVars
  <2>2. CASE Cond(at[t]) # "cndClose"
    BY <1>0, <2>2, SleepKeeps, KeepsClose, Zenon DEF Safe
  <2> QED
    BY <2>1, <2>2, Zenon
<1> QED
  BY <1>1, <1>2, <1>3, Zenon DEF Safe

\* What a goroutine that moves leaves as it was.
LEMMA MoveKeeps ==
  ASSUME PlacesOK, NEW t \in Threads \ asleep, NEW p \in Places, at[t] # "returned",
         at' = [at EXCEPT ![t] = p], asleep' \subseteq asleep
  PROVE  /\ Undisturbed
         /\ \A cnd : Sleepers(cnd) = {} => Sleepers(cnd)' = {}
         /\ \A cnd : Awake(cnd) /\ (Cond(at[t]) # cnd \/ Cond(p) = cnd) => Awake(cnd)'
         /\ \A cnd : asleep' = asleep /\ Cond(p) = cnd => Awake(cnd)'
         /\ CloserReturned => CloserReturned'
         /\ t \in Closers /\ p = "returned" => CloserReturned'
<1>1. /\ \A u \in Threads : u # t => at'[u] = at[u]
      /\ at'[t] = p /\ asleep \subseteq Threads
  BY Zenon DEF PlacesOK
<1>2. Undisturbed
  BY <1>1, Zenon DEF Undisturbed
<1>3. ASSUME NEW cnd, Sleepers(cnd) = {} PROVE Sleepers(cnd)' = {}
  BY <1>2, <1>3, FewerSleep, Zenon
<1>4. ASSUME NEW cnd, Awake(cnd), Cond(at[t]) # cnd \/ Cond(p) = cnd PROVE Awake(cnd)'
  BY <1>1, <1>4, AwakeStays, Zenon
<1>5. ASSUME NEW cnd, asleep' = asleep, Cond(p) = cnd PROVE Awake(cnd)'
  BY <1>1, <1>5, Zenon DEF Awake
<1>6. CloserReturned => CloserReturned'
  BY <1>1, CloserStays, Zenon
<1>7. t \in Closers /\ p = "returned" => CloserReturned'
  BY <1>1, Zenon DEF CloserReturned
<1> QED
  BY <1>2, <1>3, <1>4, <1>5, <1>6, <1>7, Zenon

\* Nobody is at the end of Close before the end packet is delivered.
LEMMA NoCloseWait ==
  ASSUME PlacesOK, ~deliveredEnd
  PROVE  Sleepers("cndClose") = {}
BY CondIs, Zenon DEF PlacesOK, Sleepers

\* WritePacket passes the signal on.
LEMMA WritePacketSafe ==
  ASSUME PlacesOK, Safe, NEW t \in Threads, WritePacket(t)
  PROVE  Safe'
<1>1. at[t] = "write" /\ t \notin asleep /\ Cond(at[t]) = "cndWrite"
  BY CondIs, Zenon DEF WritePacket, Runs, Places
<1>2. CASE WriteBlocked
  BY <1>1, <1>2, SleepSafe, Zenon DEF WritePacket
<1>3. CASE ~WriteBlocked
  <2>1. /\ at' = [at EXCEPT ![t] = "returned"]
        /\ UNCHANGED <<kindVars, oAckedSeq, iSeq, readBuffer, readEnd, broken,
                       readDeadlineReached, writeDeadlineReached>>
    BY <1>3, Zenon DEF WritePacket, Goto, deadlineVars
  <2>2. PICK w \in SignalIf(~BlockWrite(oSeq', oAckedSeq, iSeq, writeDeadlineReached), "cndWrite"),
             r \in SignalIf(~BlockRead(oSeq', iSeq, readBuffer, readEnd, broken,
                                       readDeadlineReached), "cndRead") :
               asleep' = asleep \ (w \cup r)
    BY <1>3, Zenon DEF WritePacket
  <2>3. /\ CanWrite /\ (\E end \in BOOLEAN, delivered \in BOOLEAN : WriteEffect(end, delivered))
        \/ NoWrite
    BY <1>3, Zenon DEF WritePacket
  <2>4. deliveredEnd => deliveredEnd'
    BY <2>3, WriteMarksEnd, Zenon DEF NoWrite
  <2>5. /\ Undisturbed
        /\ \A cnd : Sleepers(cnd) = {} => Sleepers(cnd)' = {}
        /\ \A cnd : Awake(cnd) /\ cnd # "cndWrite" => Awake(cnd)'
        /\ CloserReturned => CloserReturned'
    BY <1>1, <2>1, <2>2, MoveKeeps, Zenon DEF Places
  <2>6. WriteSafe'
    <3>1. CASE BlockWrite(oSeq', oAckedSeq, iSeq, writeDeadlineReached)
      BY <2>1, <3>1, Zenon DEF WriteSafe, WriteBlocked, BlockWrite, kindVars
    <3>2. CASE ~BlockWrite(oSeq', oAckedSeq, iSeq, writeDeadlineReached)
      <4>1. Sleepers("cndWrite")' = {} \/ Awake("cndWrite")'
        BY <2>2, <2>5, <3>2, Signalled, Zenon DEF SignalIf
      <4>2. broken \/ writeDeadlineReached => Sleepers("cndWrite") = {} \/ deliveredEnd
        BY <1>3, Zenon DEF Safe, WriteSafe
      <4> QED
        BY <2>1, <2>4, <2>5, <4>1, <4>2, Zenon DEF WriteSafe
    <3> QED
      BY <3>1, <3>2, Zenon
  <2>7. ReadSafe'
    <3>1. CASE BlockRead(oSeq', iSeq, readBuffer, readEnd, broken, readDeadlineReached)
      BY <2>1, <3>1, Zenon DEF ReadSafe, ReadBlocked, BlockRead, kindVars
    <3>2. CASE ~BlockRead(oSeq', iSeq, readBuffer, readEnd, broken, readDeadlineReached)
      <4>1. Sleepers("cndRead")' = {} \/ Awake("cndRead")'
        BY <2>2, <2>5, <3>2, Signalled, Zenon DEF SignalIf
      <4>2. broken \/ readDeadlineReached => Sleepers("cndRead") = {} \/ readEnd \/ CloserReturned
        BY Zenon DEF Safe, ReadSafe, ReadBlocked, BlockRead
      <4> QED
        BY <2>1, <2>5, <4>1, <4>2, Zenon DEF ReadSafe
    <3> QED
      BY <3>1, <3>2, Zenon
  <2>8. CloseSafe'
    <3>1. CASE NoWrite
      BY <2>1, <2>5, <3>1, KeepsClose, Zenon DEF Safe, NoWrite
    <3>2. CASE CanWrite
      BY <2>5, <3>2, NoCloseWait, Zenon DEF CanWrite, CloseSafe
    <3> QED
      BY <2>3, <3>1, <3>2, Zenon
  <2> QED
    BY <2>6, <2>7, <2>8, Zenon DEF Safe
<1> QED
  BY <1>2, <1>3, Zenon

\* readPacket signals whoever need not wait any more; the reader itself goes on to
\* return, or to the end of Close.
LEMMA TakePacketSafe ==
  ASSUME PlacesOK, Safe, NEW t \in Threads \ asleep, NEW next \in Places, TakePacket(t, next),
         at[t] # "returned", Cond(at[t]) = "cndRead", ~PeekFails
  PROVE  Safe'
<1> DEFINE ended == readEnd \/ Head(readBuffer) # "data"
<1>1. /\ at' = [at EXCEPT ![t] = next] /\ readEnd' = ended
      /\ UNCHANGED <<kindVars, oSeq, oAckedSeq, deliveredEnd, broken, readDeadlineReached,
                     writeDeadlineReached>>
  BY Zenon DEF TakePacket, Goto, deadlineVars
<1>2. PICK c \in SignalIf(deliveredEnd /\ ~BlockClose(oSeq, oAckedSeq, ended, broken), "cndClose"),
           r \in SignalIf(~BlockRead(oSeq, iSeq', readBuffer', ended, broken, readDeadlineReached), "cndRead"),
           w \in SignalIf(~BlockWrite(oSeq, oAckedSeq, iSeq', writeDeadlineReached), "cndWrite") :
             asleep' = asleep \ (c \cup r \cup w)
  BY Zenon DEF TakePacket
<1> HIDE DEF ended
<1>3. /\ Undisturbed
      /\ \A cnd : Sleepers(cnd) = {} => Sleepers(cnd)' = {}
      /\ CloserReturned => CloserReturned'
  BY <1>1, <1>2, MoveKeeps, Zenon
<1>4. ~broken /\ ~readDeadlineReached
  BY Zenon DEF PeekFails
<1>5. WriteSafe'
  <2>1. CASE BlockWrite(oSeq, oAckedSeq, iSeq', writeDeadlineReached)
    BY <1>1, <2>1, Zenon DEF WriteSafe, WriteBlocked, BlockWrite, kindVars
  <2>2. CASE ~BlockWrite(oSeq, oAckedSeq, iSeq', writeDeadlineReached)
    <3>1. Sleepers("cndWrite")' = {} \/ Awake("cndWrite")'
      BY <1>2, <1>3, <2>2, Signalled, Zenon DEF SignalIf
    <3>2. writeDeadlineReached => Sleepers("cndWrite") = {} \/ deliveredEnd
      BY Zenon DEF Safe, WriteSafe, WriteBlocked, BlockWrite
    <3> QED
      BY <1>1, <1>3, <1>4, <3>1, <3>2, Zenon DEF WriteSafe
  <2> QED
    BY <2>1, <2>2, Zenon
<1>6. ReadSafe'
  <2>1. CASE BlockRead(oSeq, iSeq', readBuffer', ended, broken, readDeadlineReached)
    BY <1>1, <2>1, Zenon DEF ReadSafe, ReadBlocked, BlockRead, kindVars
  <2>2. CASE ~BlockRead(oSeq, iSeq', readBuffer', ended, broken, readDeadlineReached)
    <3>1. Sleepers("cndRead")' = {} \/ Awake("cndRead")'
      BY <1>2, <1>3, <2>2, Signalled, Zenon DEF SignalIf
    <3> QED
      BY <1>1, <1>4, <3>1, Zenon DEF ReadSafe
  <2> QED
    BY <2>1, <2>2, Zenon
<1>7. CloseSafe'
  <2>1. CASE BlockClose(oSeq, oAckedSeq, ended, broken)
    BY <1>1, <2>1, Zenon DEF CloseSafe, CloseBlocked, BlockClose, kindVars
  <2>2. CASE ~deliveredEnd
    BY <1>3, <2>2, NoCloseWait, Zenon DEF CloseSafe
  <2>3. CASE deliveredEnd /\ ~BlockClose(oSeq, oAckedSeq, ended, broken)
    <3>1. Sleepers("cndClose")' = {} \/ Awake("cndClose")'
      BY <1>2, <1>3, <2>3, Signalled, Zenon DEF SignalIf
    <3> QED
      BY <1>1, <1>4, <3>1, Zenon DEF CloseSafe
  <2> QED
    BY <2>1, <2>2, <2>3, Zenon
<1> QED
  BY <1>5, <1>6, <1>7, Zenon DEF Safe

\* A read that finds no packet: an error, a deadline, or EOF.
LEMMA PeekSafe ==
  ASSUME PlacesOK, Safe, NEW t \in Threads \ asleep, NEW next \in Places, at[t] # "returned",
         Cond(at[t]) = "cndRead", PeekFails, at' = [at EXCEPT ![t] = next],
         UNCHANGED <<asleep, kindVars, streamVars, endVars, deadlineVars>>
  PROVE  Safe'
<1>1. UNCHANGED <<asleep, kindVars, oSeq, oAckedSeq, iSeq, readBuffer, deliveredEnd, readEnd, broken,
                  readDeadlineReached, writeDeadlineReached>>
  BY Zenon DEF streamVars, endVars, deadlineVars
<1>2. /\ \A cnd : Sleepers(cnd) = {} => Sleepers(cnd)' = {}
      /\ \A cnd : Awake(cnd) /\ cnd # "cndRead" => Awake(cnd)'
      /\ CloserReturned => CloserReturned'
  BY <1>1, MoveKeeps, Zenon
<1>3. WriteSafe' /\ CloseSafe'
  BY <1>1, <1>2, KeepsWrite, KeepsClose, Zenon DEF Safe
<1>4. Sleepers("cndRead") = {} \/ readEnd \/ CloserReturned
  BY Zenon DEF Safe, ReadSafe, ReadBlocked, BlockRead, PeekFails
<1>5. ReadSafe'
  BY <1>1, <1>2, <1>4, Zenon DEF ReadSafe
<1> QED
  BY <1>3, <1>5, Zenon DEF Safe

\* ReadPacket, and the draining reads of Close.
LEMMA ReadsSafe ==
  ASSUME PlacesOK, Safe, NEW t \in Threads, ReadPacket(t) \/ CloseDrains(t)
  PROVE  Safe'
<1>1. at[t] \in {"read", "closeRead"} /\ t \notin asleep /\ Cond(at[t]) = "cndRead"
  BY CondIs, Zenon DEF ReadPacket, CloseDrains, Runs, Places
<1>2. CASE ReadBlocked /\ Sleep(t)
  BY <1>1, <1>2, SleepSafe, Zenon
<1>3. ASSUME NEW next \in Places, ~PeekFails, TakePacket(t, next)
      PROVE  Safe'
  BY <1>1, <1>3, TakePacketSafe, Zenon
<1>4. ASSUME NEW next \in Places, PeekFails, Goto(t, next),
             UNCHANGED <<asleep, streamVars, endVars, deadlineVars>>
      PROVE  Safe'
  BY <1>1, <1>4, PeekSafe, Zenon DEF Goto
<1>5. CASE ReadPacket(t)
  BY <1>2, <1>3, <1>4, <1>5, Zenon DEF ReadPacket, Places
<1>6. CASE CloseDrains(t)
  BY <1>2, <1>3, <1>4, <1>6, Zenon DEF CloseDrains, Places
<1> QED
  BY <1>5, <1>6, Zenon

\* Close starts.
LEMMA CloseCallSafe ==
  ASSUME PlacesOK, Safe, NEW t \in Threads, CloseCall(t)
  PROVE  Safe'
<1>1. at[t] = "closing" /\ t \notin asleep
  BY Zenon DEF CloseCall, Runs
<1>2. \A cnd \in AllConds : Cond(at[t]) # cnd
  BY <1>1, CondIs, Zenon DEF Places
<1>3. UNCHANGED <<asleep, kindVars, oSeq, oAckedSeq, iSeq, readBuffer, deliveredEnd, readEnd, broken,
                  readDeadlineReached, writeDeadlineReached>>
  BY Zenon DEF CloseCall, Goto, streamVars, endVars, deadlineVars
<1>4. PICK p \in Places : at' = [at EXCEPT ![t] = p]
  BY Zenon DEF CloseCall, Goto, Places
<1>5. /\ \A cnd : Sleepers(cnd) = {} => Sleepers(cnd)' = {}
      /\ \A cnd \in AllConds : Awake(cnd) => Awake(cnd)'
      /\ CloserReturned => CloserReturned'
  BY <1>1, <1>2, <1>3, <1>4, MoveKeeps, Zenon
<1> QED
  BY <1>3, <1>5, KeepsWrite, KeepsRead, KeepsClose, Zenon DEF Safe, AllConds

\* Close signals nobody after its write: it reads on itself, or has returned; and the
\* writers wait for the end.
LEMMA CloseWritesEndSafe ==
  ASSUME PlacesOK, Safe, NEW t \in Threads, CloseWritesEnd(t)
  PROVE  Safe'
<1>1. at[t] = "closeWrite" /\ t \notin asleep /\ Cond(at[t]) = "cndWrite" /\ t \in Closers
  BY CondIs, Zenon DEF CloseWritesEnd, Runs, Places, PlacesOK
<1>2. CASE WriteBlocked
  BY <1>1, <1>2, SleepSafe, Zenon DEF CloseWritesEnd
<1>3. CASE ~WriteBlocked
  <2>1. UNCHANGED <<asleep, kindVars, oAckedSeq, iSeq, readBuffer, readEnd, broken,
                    readDeadlineReached, writeDeadlineReached>>
    BY <1>3, Zenon DEF CloseWritesEnd, Goto, deadlineVars
  <2>2. PICK p \in {"returned", "closeRead"} : at' = [at EXCEPT ![t] = p]
    BY <1>3, Zenon DEF CloseWritesEnd, Goto
  <2>3. \/ NoWrite /\ (deliveredEnd \/ ~CanWrite)
        \/ CanWrite /\ \E delivered \in BOOLEAN : WriteEffect(TRUE, delivered)
    BY <1>3, Zenon DEF CloseWritesEnd
  <2>4. /\ \A cnd : Sleepers(cnd) = {} => Sleepers(cnd)' = {}
        /\ \A cnd : Awake(cnd) /\ cnd # "cndWrite" => Awake(cnd)'
        /\ CloserReturned => CloserReturned'
        /\ p = "returned" => CloserReturned'
        /\ p = "closeRead" => Awake("cndRead")'
    <3>1. p \in Places /\ (p = "closeRead" => Cond(p) = "cndRead")
      BY CondIs, Zenon DEF Places
    <3> QED
      BY <1>1, <2>1, <2>2, <3>1, MoveKeeps, Zenon
  <2>5. CASE NoWrite
    <3>1. UNCHANGED <<oSeq, deliveredEnd>>
      BY <2>5, Zenon DEF NoWrite
    <3>2. ReadSafe' /\ CloseSafe'
      BY <2>1, <2>4, <3>1, KeepsRead, KeepsClose, Zenon DEF Safe
    <3>3. Sleepers("cndWrite") = {} \/ deliveredEnd
      BY <1>3, <2>3, <3>1, Zenon DEF Safe, WriteSafe, CanWrite, WriteEffect, NoWrite
    <3>4. WriteSafe'
      BY <2>4, <3>1, <3>3, Zenon DEF WriteSafe
    <3> QED
      BY <3>2, <3>4, Zenon DEF Safe
  <2>6. CASE CanWrite /\ \E delivered \in BOOLEAN : WriteEffect(TRUE, delivered)
    <3>1. deliveredEnd'
      BY <2>6, WriteMarksEnd, Zenon
    <3>2. CloseSafe'
      BY <2>4, <2>6, NoCloseWait, Zenon DEF CanWrite, CloseSafe
    <3>3. ReadSafe'
      <4>1. readDeadlineReached => Sleepers("cndRead") = {} \/ readEnd \/ CloserReturned
        BY Zenon DEF Safe, ReadSafe, ReadBlocked, BlockRead
      <4>2. ~broken
        BY <2>6, Zenon DEF CanWrite
      <4> QED
        BY <2>1, <2>4, <4>1, <4>2, Zenon DEF ReadSafe
    <3> QED
      BY <3>1, <3>2, <3>3, Zenon DEF Safe, WriteSafe
  <2> QED
    BY <2>3, <2>5, <2>6, Zenon
<1> QED
  BY <1>2, <1>3

\* Nobody sleeps after the broadcasts that end a channel.
LEMMA AllAwakeSafe ==
  ASSUME Undisturbed, asleep' = asleep \ Broadcast(AllConds)
  PROVE  Safe'
<1>1. \A cnd \in AllConds : Sleepers(cnd)' = {}
  BY Broadcasted, Zenon
<1> QED
  BY <1>1, Zenon DEF AllConds, Safe, WriteSafe, ReadSafe, CloseSafe

\* The end of Close.
LEMMA CloseReturnsSafe ==
  ASSUME PlacesOK, Safe, NEW t \in Threads, CloseReturns(t)
  PROVE  Safe'
<1>1. at[t] = "closeWait" /\ t \notin asleep /\ Cond(at[t]) = "cndClose" /\ t \in Closers
  BY CondIs, Zenon DEF CloseReturns, Runs, Places, PlacesOK
<1>2. CASE CloseBlocked
  BY <1>1, <1>2, SleepSafe, Zenon DEF CloseReturns
<1>3. CASE ~CloseBlocked /\ broken
  <2>1. /\ at' = [at EXCEPT ![t] = "returned"]
        /\ UNCHANGED <<asleep, kindVars, oSeq, oAckedSeq, iSeq, readBuffer, deliveredEnd, readEnd, broken,
                       readDeadlineReached, writeDeadlineReached>>
    BY <1>3, Zenon DEF CloseReturns, Goto, streamVars, endVars, deadlineVars
  <2>2. /\ \A cnd : Sleepers(cnd) = {} => Sleepers(cnd)' = {}
        /\ \A cnd : Awake(cnd) /\ cnd # "cndClose" => Awake(cnd)'
        /\ CloserReturned => CloserReturned'
    BY <1>1, <2>1, MoveKeeps, Zenon DEF Places
  <2>3. WriteSafe' /\ ReadSafe'
    BY <2>1, <2>2, KeepsWrite, KeepsRead, Zenon DEF Safe
  <2>4. CloseSafe'
    BY <1>3, <2>2, Zenon DEF Safe, CloseSafe
  <2> QED
    BY <2>3, <2>4, Zenon DEF Safe
<1>4. CASE ~CloseBlocked /\ ~broken
  <2>1. asleep' = asleep \ Broadcast(AllConds) /\ at' = [at EXCEPT ![t] = "returned"]
    BY <1>4, Zenon DEF CloseReturns, Goto
  <2>2. Undisturbed
    BY <1>1, <2>1, MoveKeeps, Zenon DEF Places
  <2> QED
    BY <2>1, <2>2, AllAwakeSafe, Zenon
<1> QED
  BY <1>2, <1>3, <1>4, Zenon

\* A step that moves nobody leaves those awake that were.
LEMMA QuietKeeps ==
  ASSUME at' = at, asleep' \subseteq asleep
  PROVE  /\ Undisturbed
         /\ \A cnd : Sleepers(cnd) = {} => Sleepers(cnd)' = {}
         /\ \A cnd : Awake(cnd) => Awake(cnd)'
         /\ CloserReturned => CloserReturned'
<1>1. Undisturbed
  BY Zenon DEF Undisturbed
<1> QED
  BY <1>1, FewerSleep, Zenon DEF Awake, CloserReturned

\* A packet of the peer wakes a reader.
LEMMA ReceivedPacketSafe ==
  ASSUME PlacesOK, Safe, NEW kind, ReceivedPacket(kind)
  PROVE  Safe'
<1>1. /\ UNCHANGED <<kindVars, at, oSeq, oAckedSeq, iSeq, deliveredEnd, readEnd, broken,
                     readDeadlineReached, writeDeadlineReached>>
      /\ ~broken /\ asleep' \subseteq asleep
  BY Zenon DEF ReceivedPacket, deadlineVars
<1>2. WriteSafe' /\ CloseSafe'
  BY <1>1, QuietKeeps, KeepsWrite, KeepsClose, Zenon DEF Safe
<1>3. ReadSafe'
  <2>1. CASE UNCHANGED <<readBuffer, asleep>>
    BY <1>1, <2>1, QuietKeeps, KeepsRead, Zenon DEF Safe
  <2>2. ASSUME NEW r \in Signal("cndRead"), asleep' = asleep \ r
        PROVE  ReadSafe'
    <3>1. Sleepers("cndRead")' = {} \/ Awake("cndRead")'
      BY <1>1, <2>2, QuietKeeps, Signalled, Zenon
    <3>2. readDeadlineReached => Sleepers("cndRead") = {} \/ readEnd \/ CloserReturned
      BY Zenon DEF Safe, ReadSafe, ReadBlocked, BlockRead
    <3> QED
      BY <1>1, <3>1, <3>2, QuietKeeps, Zenon DEF ReadSafe
  <2> QED
    BY <2>1, <2>2, Zenon DEF ReceivedPacket
<1> QED
  BY <1>2, <1>3, Zenon DEF Safe

\* An ack wakes a writer, and a Close that waits for it.
LEMMA ReceivedAckSafe ==
  ASSUME PlacesOK, Safe, NEW n, ReceivedAck(n)
  PROVE  Safe'
<1>1. /\ UNCHANGED <<kindVars, at, oSeq, iSeq, readBuffer, deliveredEnd, readEnd, broken,
                     readDeadlineReached, writeDeadlineReached>>
      /\ ~broken
  BY Zenon DEF ReceivedAck, endVars, deadlineVars
<1>2. PICK w \in Signal("cndWrite"), c \in SignalIf(deliveredEnd \/ receivedEnd, "cndClose") :
             asleep' = asleep \ (w \cup c)
  BY Zenon DEF ReceivedAck
<1>3. /\ Undisturbed
      /\ \A cnd : Sleepers(cnd) = {} => Sleepers(cnd)' = {}
      /\ \A cnd : Awake(cnd) => Awake(cnd)'
      /\ CloserReturned => CloserReturned'
  BY <1>1, <1>2, QuietKeeps, Zenon
<1>4. ReadSafe'
  BY <1>1, <1>3, KeepsRead, Zenon DEF Safe
<1>5. WriteSafe'
  <2>1. Sleepers("cndWrite")' = {} \/ Awake("cndWrite")'
    BY <1>2, <1>3, Signalled, Zenon
  <2>2. writeDeadlineReached => Sleepers("cndWrite") = {} \/ deliveredEnd
    BY Zenon DEF Safe, WriteSafe, WriteBlocked, BlockWrite
  <2> QED
    BY <1>1, <1>3, <2>1, <2>2, Zenon DEF WriteSafe
<1>6. CloseSafe'
  <2>1. CASE ~deliveredEnd
    BY <1>3, <2>1, NoCloseWait, Zenon DEF CloseSafe
  <2>2. CASE deliveredEnd
    <3>1. Sleepers("cndClose")' = {} \/ Awake("cndClose")'
      BY <1>2, <1>3, <2>2, Signalled, Zenon DEF SignalIf
    <3> QED
      BY <1>1, <3>1, Zenon DEF CloseSafe
  <2> QED
    BY <2>1, <2>2, Zenon
<1> QED
  BY <1>4, <1>5, <1>6, Zenon DEF Safe

\* A read or a write deadline is reached, set or cleared: those it is for are woken.
LEMMA DeadlineSafe ==
  ASSUME PlacesOK, Safe, at' = at, NEW cnds, asleep' = asleep \ Broadcast(cnds),
         UNCHANGED <<kindVars, oSeq, oAckedSeq, iSeq, readBuffer, deliveredEnd, readEnd, broken>>,
         "cndWrite" \in cnds \/ UNCHANGED writeDeadlineReached,
         "cndRead" \in cnds \/ UNCHANGED readDeadlineReached
  PROVE  Safe'
<1>1. /\ Undisturbed
      /\ \A cnd : Sleepers(cnd) = {} => Sleepers(cnd)' = {}
      /\ \A cnd : Awake(cnd) => Awake(cnd)'
      /\ CloserReturned => CloserReturned'
  BY QuietKeeps, Zenon
<1>2. \A cnd \in cnds : Sleepers(cnd)' = {}
  BY <1>1, Broadcasted, Zenon
<1>3. WriteSafe'
  BY <1>1, <1>2, KeepsWrite, Zenon DEF Safe, WriteSafe
<1>4. ReadSafe'
  BY <1>1, <1>2, KeepsRead, Zenon DEF Safe, ReadSafe
<1>5. CloseSafe'
  BY <1>1, KeepsClose, Zenon DEF Safe
<1> QED
  BY <1>3, <1>4, <1>5, Zenon DEF Safe

\* The timers, their callbacks, Kill and the setting of deadlines.
LEMMA TimersSafe ==
  ASSUME PlacesOK, Safe,
         \/ \E name \in Timers : Fire(name)
         \/ Callback \/ Kill
         \/ \E d \in Deadlines : SetReadDeadline(d) \/ SetWriteDeadline(d) \/ SetDeadline(d)
         \/ UNCHANGED vars
  PROVE  Safe'
<1> USE DEF streamVars, endVars, deadlineVars, timerVars, kindVars
<1>1. CASE UNCHANGED <<kindVars, at, asleep, streamVars, endVars, deadlineVars>>
  BY <1>1, QuietKeeps, KeepsWrite, KeepsRead, KeepsClose, Zenon DEF Safe
<1>2. CASE \E stopped : Break(stopped)
  <2>1. at' = at /\ asleep' = asleep \ Broadcast(AllConds)
    BY <1>2, Zenon DEF Break
  <2> QED
    BY <2>1, AllAwakeSafe, Zenon DEF Undisturbed
<1>3. CASE OnReadDeadlineReached
  BY <1>3, DeadlineSafe, Zenon DEF OnReadDeadlineReached
<1>4. CASE OnWriteDeadlineReached
  BY <1>4, DeadlineSafe, Zenon DEF OnWriteDeadlineReached
<1>5. ASSUME NEW d \in Deadlines, SetReadDeadline(d)
      PROVE  Safe'
  BY <1>5, DeadlineSafe, Zenon DEF SetReadDeadline, SetTimers
<1>6. ASSUME NEW d \in Deadlines, SetWriteDeadline(d)
      PROVE  Safe'
  BY <1>6, DeadlineSafe, Zenon DEF SetWriteDeadline, SetTimers
<1>7. ASSUME NEW d \in Deadlines, SetDeadline(d)
      PROVE  Safe'
  <2>1. at' = at /\ asleep' = asleep \ Broadcast(AllConds)
    BY <1>7, Zenon DEF SetDeadline, SetTimers
  <2> QED
    BY <2>1, AllAwakeSafe, Zenon DEF Undisturbed
<1>8. CASE (\E name \in Timers : Fire(name) \/ TooLate(name)) \/ UNCHANGED vars
  BY <1>1, <1>8, Zenon DEF Fire, TooLate, vars
<1> QED
  BY <1>2, <1>3, <1>4, <1>5, <1>6, <1>7, <1>8, Zenon
  DEF Callback, Kill, OnOpenDeadlineReached, OnCloseDeadlineReached, Timers

\* Error is called: then no promise is made.
LEMMA ErrorIsCalled ==
  ASSUME PlacesOK, NEW t \in Threads, ErrorCall(t) \/ ErrorWrites(t)
  PROVE  ~NoError'
<1>1. at[t] \in {"failing", "error"} /\ t \in Failers
  BY Zenon DEF ErrorCall, ErrorWrites, Runs, PlacesOK
<1>2. at'[t] \notin {"idle", "failing"}
  <2>1. CASE at' = at /\ at[t] = "error"
    BY <2>1, Zenon
  <2>2. ASSUME NEW p \in {"returned", "error"}, at' = [at EXCEPT ![t] = p] PROVE at'[t] \notin {"idle", "failing"}
    BY <2>2, Zenon DEF PlacesOK
  <2> QED
    BY <2>1, <2>2, Zenon DEF ErrorCall, ErrorWrites, Runs, Goto, Sleep
<1> QED
  BY <1>1, <1>2, Zenon DEF NoError

\* Every step on a channel keeps the invariant of the wake-ups (blockRead, blockWrite,
\* blockClose and what signals them).
LEMMA WakeStep ==
  ASSUME WakeInv, [Next]_vars
  PROVE  WakeInv'
<1>1. PlacesOK /\ PlacesOK'
  BY PlacesStep, Zenon DEF WakeInv
<1>2. ASSUME NoError' PROVE Safe'
  <2>1. Safe
    BY <1>1, <1>2, NoErrorBefore, Zenon DEF WakeInv, Safe
  <2>2. ASSUME NEW t \in Threads, Run(t)
        PROVE  Safe'
    BY <1>1, <1>2, <2>1, <2>2, ErrorIsCalled, WritePacketSafe, ReadsSafe, CloseCallSafe,
       CloseWritesEndSafe, CloseReturnsSafe, Zenon DEF Run
  <2>3. ASSUME NEW kind \in Kinds, ReceivedPacket(kind)
        PROVE  Safe'
    BY <1>1, <2>1, <2>3, ReceivedPacketSafe, Zenon
  <2>4. ASSUME NEW n \in 1..oSeq, ReceivedAck(n)
        PROVE  Safe'
    BY <1>1, <2>1, <2>4, ReceivedAckSafe, Zenon
  <2> QED
    BY <1>1, <2>1, <2>2, <2>3, <2>4, TimersSafe, Zenon DEF Next
<1> QED
  BY <1>1, <1>2, Zenon DEF WakeInv, Safe

\* Every call starts at its place, and nobody sleeps.
LEMMA WakeStart == Init => WakeInv
<1> SUFFICES ASSUME Init PROVE WakeInv
  BY Zenon
<1>1. asleep = {}
  BY Zenon DEF Init
<1>2. ASSUME NEW t \in Threads
      PROVE  \/ at[t] \in {"idle", "write", "read"}
             \/ at[t] = "closing" /\ t \in Closers
             \/ at[t] = "failing" /\ t \in Failers
  <2>1. at[t] = CASE t \notin Calls(app) -> "idle"
                  [] t \in Writers -> "write" [] t \in Readers -> "read"
                  [] t \in Closers -> "closing" [] OTHER -> "failing"
    BY Zenon DEF Init
  <2> QED
    BY <2>1, Zenon DEF Threads
<1>3. at \in [Threads -> Places]
  BY <1>2, Zenon DEF Init, Places
<1>4. PlacesOK
  BY <1>1, <1>2, <1>3, Zenon DEF PlacesOK
<1>5. \A cnd : Sleepers(cnd) = {}
  BY <1>1, Zenon DEF Sleepers
<1> QED
  BY <1>4, <1>5, Zenon DEF WakeInv, WriteSafe, ReadSafe, CloseSafe

(* For every set of goroutines and every size of the buffers: when no      *)
(* Error was called and every call has returned or sleeps, whoever sleeps  *)
(* still has to wait, or waits for the end of the channel (WritePacket,    *)
(* ReadPacket, Close, the packets of the peer, the deadlines and Kill).    *)
THEOREM NoWakeupIsLost == Spec => []NoLostWakeup
<1>1. WakeInv => NoLostWakeup
  <2> SUFFICES ASSUME WakeInv, NEW t \in asleep,
                      \A u \in Threads : IF u \in Failers THEN at[u] \in {"idle", "failing"}
                                         ELSE u \in asleep \/ at[u] \in {"idle", "returned"}
               PROVE  Blocked(t) \/ Released(t)
    BY Zenon DEF NoLostWakeup
  <2>1. PlacesOK /\ t \in Threads /\ Cond(at[t]) \in AllConds
    BY Zenon DEF WakeInv, PlacesOK
  <2>2. NoError
    BY Zenon DEF NoError, Threads
  <2>3. WriteSafe /\ ReadSafe /\ CloseSafe
    BY <2>2, Zenon DEF WakeInv
  <2>4. ASSUME NEW cnd \in AllConds PROVE ~Awake(cnd)
    <3> SUFFICES ASSUME NEW u \in Threads \ asleep, Cond(at[u]) = cnd PROVE FALSE
      BY Zenon DEF Awake
    <3>1. at[u] \in {"idle", "failing", "returned"}
      BY Zenon
    <3>2. Cond(at[u]) \notin AllConds
      BY <3>1, CondIs, Zenon DEF Places
    <3> QED
      BY <3>2, Zenon
  <2>5. t \in Sleepers(Cond(at[t]))
    BY Zenon DEF Sleepers
  <2>6. CASE Cond(at[t]) = "cndWrite"
    BY <2>3, <2>4, <2>5, <2>6, Zenon DEF WriteSafe, Blocked, Released, AllConds
  <2>7. CASE Cond(at[t]) = "cndRead"
    BY <2>3, <2>4, <2>5, <2>7, Zenon DEF ReadSafe, Blocked, Released, AllConds, CloserReturned
  <2>8. CASE Cond(at[t]) = "cndClose"
    BY <2>3, <2>4, <2>5, <2>8, Zenon DEF CloseSafe, Blocked, AllConds
  <2> QED
    BY <2>1, <2>6, <2>7, <2>8, Zenon DEF AllConds
<1> QED
  BY <1>1, WakeStart, WakeStep, PTL DEF Spec
=============================================================================
