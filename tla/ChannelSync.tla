---------------------------- MODULE ChannelSync ----------------------------
(***************************************************************************)
(* The calls that block on one side of a channel (e3x/channel.go): the     *)
(* goroutines in WritePacket, ReadPacket, Error and Close, the condition   *)
(* variables they wait on, the deadlines and the timers that end a channel.*)
(*                                                                         *)
(* Every stretch a goroutine runs under c.mtx, from a lock or a wake-up to *)
(* the next Wait or unlock, is one step.  The peer is abstract: it sends   *)
(* packets and acks in order.  Sequence numbers, acks and resends are      *)
(* modelled in Channel; by its proved invariant the write buffer holds     *)
(* oSeq - oAckedSeq packets.                                               *)
(***************************************************************************)
EXTENDS Naturals, Sequences, FiniteSets

CONSTANTS
  Writers, Readers, Closers, Failers,  \* goroutines in one call each
  cReadBufferSize, cWriteBufferSize,
  MaxReceived,     \* bound: packets the peer sends
  Apps,            \* bound: what applications do besides: "plain", "deadlines", "errors"
  DeadlineCalls, ErrorCalls   \* bound: the goroutines that call in the last two

Threads == Writers \cup Readers \cup Closers \cup Failers

\* The goroutines that make their call.
Calls(a) ==
  CASE a = "deadlines" -> DeadlineCalls [] a = "errors" -> ErrorCalls
    [] OTHER -> Threads \ Failers

VARIABLES
  serverside, reliable,   \* the kind of channel
  app,      \* whether the application sets deadlines, or calls Error
  at,       \* where each goroutine is
  asleep,   \* the goroutines that sleep in a Wait
  oSeq, oAckedSeq, iSeq,
  readBuffer,   \* kinds of the buffered packets, in order
  received,     \* packets the peer sent
  deliveredEnd, receivedEnd, readEnd, broken, closed,
  readDeadlineReached, writeDeadlineReached,
  armed,        \* the timers that run
  fired,        \* the timers whose callback has started but not got c.mtx
  tCloseDeadline,  \* the close timer was created
  mtx           \* the goroutine that holds c.mtx between two steps, or "free"

streamVars == <<oSeq, oAckedSeq, iSeq, readBuffer, received>>
endVars == <<deliveredEnd, receivedEnd, readEnd, broken, closed>>
deadlineVars == <<readDeadlineReached, writeDeadlineReached>>
timerVars == <<armed, fired, tCloseDeadline>>
kindVars == <<serverside, reliable, app>>
vars == <<kindVars, at, asleep, streamVars, endVars, deadlineVars, timerVars, mtx>>

\* A packet with an end header may carry data or be empty.
Kinds == {"data", "end", "dataEnd"}
Timers == {"open", "close", "read", "write"}

Cond(place) ==
  CASE place \in {"write", "error", "closeWrite"} -> "cndWrite"
    [] place \in {"read", "closeRead"} -> "cndRead"
    [] place = "closeWait" -> "cndClose"
    [] OTHER -> "none"

-----------------------------------------------------------------------------
(* Blocking conditions, over the values a step leaves.                     *)

BlockWrite(o, acked, i, late) ==
  /\ ~late
  /\ \/ serverside /\ i = 0
     \/ ~serverside /\ i = 0 /\ acked = 0 /\ o >= 1
     \/ reliable /\ o - acked >= cWriteBufferSize

BlockRead(o, i, buf, ended, dead, late) ==
  /\ ~dead /\ ~late /\ ~ended
  /\ \/ serverside /\ o = 0 /\ i >= 1
     \/ ~serverside /\ o = 0
     \/ buf = <<>>

BlockClose(o, acked, ended, dead) ==
  ~dead /\ (~ended \/ (reliable /\ o > acked))

WriteBlocked == BlockWrite(oSeq, oAckedSeq, iSeq, writeDeadlineReached)
ReadBlocked ==
  BlockRead(oSeq, iSeq, readBuffer, readEnd, broken, readDeadlineReached)
CloseBlocked == BlockClose(oSeq, oAckedSeq, readEnd, broken)

-----------------------------------------------------------------------------
(* Condition variables.                                                    *)

Sleepers(cnd) == {t \in asleep : Cond(at[t]) = cnd}

\* Signal wakes one sleeper, if there is any; the sets it may wake.
Signal(cnd) == IF Sleepers(cnd) = {} THEN {{}} ELSE {{t} : t \in Sleepers(cnd)}

\* Mutant of SignalIf: nobody is signalled.
SignalNobody(condition, cnd) == {{}}

SignalIf(condition, cnd) == IF condition THEN Signal(cnd) ELSE {{}}

\* Mutant of Broadcast: Signal, which wakes one goroutine of each condition.
SignalEach(cnds) ==
  {CHOOSE t \in Sleepers(c) : TRUE : c \in {d \in cnds : Sleepers(d) # {}}}

Broadcast(cnds) == {t \in asleep : Cond(at[t]) \in cnds}

AllConds == {"cndWrite", "cndRead", "cndClose"}

\* Goroutine t gets the lock, or still holds it.
Runs(t, place) == at[t] = place /\ t \notin asleep /\ mtx \in {"free", t}

Sleep(t) ==
  /\ asleep' = asleep \cup {t}
  /\ mtx' = "free"
  /\ UNCHANGED <<kindVars, at, streamVars, endVars, deadlineVars, timerVars>>

\* t goes on to "place": it returns, or runs on without releasing the lock.
Goto(t, place) ==
  /\ at' = [at EXCEPT ![t] = place]
  /\ mtx' = IF place = "returned" THEN "free" ELSE t
  /\ UNCHANGED kindVars

\* Mutant of SetCloseDeadline: the timer is created stopped.
SetCloseDeadlineStopped == tCloseDeadline' = TRUE /\ UNCHANGED <<armed, fired>>

\* setCloseDeadline creates the timer once; after that it is never armed again.
SetCloseDeadline ==
  /\ tCloseDeadline' = TRUE
  /\ armed' = IF tCloseDeadline THEN armed ELSE armed \cup {"close"}
  /\ fired' = fired

-----------------------------------------------------------------------------
(* Writing.                                                                *)

CanWrite == ~broken /\ ~writeDeadlineReached /\ ~deliveredEnd

\* The packet takes a seq and is buffered whether or not it can be delivered;
\* the first packet of a server ends the open deadline if it is.
WriteEffect(end, delivered) ==
  /\ oSeq' = oSeq + 1
  /\ deliveredEnd' = (deliveredEnd \/ end)
  /\ tCloseDeadline' = (tCloseDeadline \/ end)
  /\ armed' = (IF end /\ ~tCloseDeadline THEN armed \cup {"close"} ELSE armed)
              \ (IF oSeq = 0 /\ serverside /\ delivered THEN {"open"} ELSE {})
  /\ fired' = fired

NoWrite == UNCHANGED <<oSeq, deliveredEnd, timerVars>>

WritePacket(t) ==
  /\ Runs(t, "write")
  /\ \/ WriteBlocked /\ Sleep(t)
     \/ /\ ~WriteBlocked
        /\ Goto(t, "returned")
        /\ \/ CanWrite /\ \E end, delivered \in BOOLEAN : WriteEffect(end, delivered)
           \/ ~CanWrite /\ NoWrite
        /\ \E w \in SignalIf(~BlockWrite(oSeq', oAckedSeq, iSeq,
                                         writeDeadlineReached), "cndWrite") :
           \E r \in SignalIf(~BlockRead(oSeq', iSeq, readBuffer, readEnd, broken,
                                        readDeadlineReached), "cndRead") :
             asleep' = asleep \ (w \cup r)
        /\ UNCHANGED <<oAckedSeq, iSeq, readBuffer, received, receivedEnd, readEnd,
                       broken, closed, deadlineVars>>

\* Error returns at once on a broken channel, but goes on to wait otherwise.
ErrorCall(t) ==
  /\ Runs(t, "failing")
  /\ Goto(t, IF broken THEN "returned" ELSE "error")
  /\ UNCHANGED <<asleep, streamVars, endVars, deadlineVars, timerVars>>

ErrorWrites(t) ==
  /\ Runs(t, "error")
  /\ \/ WriteBlocked /\ Sleep(t)
     \/ /\ ~WriteBlocked
        /\ Goto(t, "returned")
        /\ \/ CanWrite /\ WriteEffect(FALSE, TRUE) /\ broken' = TRUE
              /\ asleep' = asleep \ Broadcast(AllConds)
           \/ CanWrite /\ WriteEffect(FALSE, FALSE) /\ UNCHANGED <<broken, asleep>>
           \/ ~CanWrite /\ NoWrite /\ UNCHANGED <<broken, asleep>>
        /\ UNCHANGED <<oAckedSeq, iSeq, readBuffer, received, receivedEnd, readEnd,
                       closed, deadlineVars>>

-----------------------------------------------------------------------------
(* Reading.                                                                *)

\* readPacket: takes the head, ends a client's open deadline with the first
\* packet, and signals whoever need not wait any more.  The calling goroutine
\* goes on to "next".
TakePacket(t, next) ==
  LET ended == readEnd \/ Head(readBuffer) # "data"
  IN /\ iSeq' = iSeq + 1
     /\ readBuffer' = Tail(readBuffer)
     /\ readEnd' = ended
     /\ armed' = armed \ (IF iSeq = 0 /\ ~serverside THEN {"open"} ELSE {})
     /\ Goto(t, next)
     /\ \E c \in SignalIf(deliveredEnd /\ ~BlockClose(oSeq, oAckedSeq, ended, broken),
                          "cndClose") :
        \E r \in SignalIf(~BlockRead(oSeq, iSeq', readBuffer', ended, broken,
                                     readDeadlineReached), "cndRead") :
        \E w \in SignalIf(~BlockWrite(oSeq, oAckedSeq, iSeq',
                                      writeDeadlineReached), "cndWrite") :
          asleep' = asleep \ (c \cup r \cup w)
     /\ UNCHANGED <<oSeq, oAckedSeq, received, deliveredEnd, receivedEnd, broken,
                    closed, deadlineVars, fired, tCloseDeadline>>

\* peekPacket reports an error, a deadline or EOF without a packet.
PeekFails == broken \/ readDeadlineReached \/ readEnd

ReadPacket(t) ==
  /\ Runs(t, "read")
  /\ \/ ReadBlocked /\ Sleep(t)
     \/ ~ReadBlocked /\ ~PeekFails /\ TakePacket(t, "returned")
     \/ /\ ~ReadBlocked /\ PeekFails
        /\ Goto(t, "returned")
        /\ UNCHANGED <<asleep, streamVars, endVars, deadlineVars, timerVars>>

-----------------------------------------------------------------------------
(* Closing.                                                                *)

CloseCall(t) ==
  /\ Runs(t, "closing")
  /\ \/ broken /\ Goto(t, "returned") /\ UNCHANGED timerVars
     \/ /\ ~broken
        /\ SetCloseDeadline
        /\ Goto(t, IF deliveredEnd THEN "closeRead" ELSE "closeWrite")
  /\ UNCHANGED <<asleep, streamVars, endVars, deadlineVars>>

\* Unlike WritePacket, Close signals nobody after its write.
CloseWritesEnd(t) ==
  /\ Runs(t, "closeWrite")
  /\ \/ WriteBlocked /\ Sleep(t)
     \/ /\ ~WriteBlocked
        /\ \/ deliveredEnd /\ Goto(t, "closeRead") /\ NoWrite
           \/ ~deliveredEnd /\ ~CanWrite /\ Goto(t, "returned") /\ NoWrite
           \/ CanWrite /\ WriteEffect(TRUE, TRUE) /\ Goto(t, "closeRead")
           \/ CanWrite /\ WriteEffect(TRUE, FALSE) /\ Goto(t, "returned")
        /\ UNCHANGED <<asleep, oAckedSeq, iSeq, readBuffer, received, receivedEnd,
                       readEnd, broken, closed, deadlineVars>>

\* Drains the read buffer up to the peer's end packet.
CloseDrains(t) ==
  /\ Runs(t, "closeRead")
  /\ \/ ReadBlocked /\ Sleep(t)
     \/ /\ ~ReadBlocked /\ ~PeekFails
        /\ TakePacket(t, IF Head(readBuffer) = "end" THEN "closeWait" ELSE "closeRead")
     \/ /\ ~ReadBlocked /\ PeekFails
        /\ Goto(t, IF broken \/ readDeadlineReached THEN "returned" ELSE "closeWait")
        /\ UNCHANGED <<asleep, streamVars, endVars, deadlineVars, timerVars>>

CloseReturns(t) ==
  /\ Runs(t, "closeWait")
  /\ \/ CloseBlocked /\ Sleep(t)
     \/ /\ ~CloseBlocked /\ broken
        /\ Goto(t, "returned")
        /\ UNCHANGED <<asleep, streamVars, endVars, deadlineVars, timerVars>>
     \/ /\ ~CloseBlocked /\ ~broken
        /\ Goto(t, "returned")
        /\ closed' = TRUE
        /\ armed' = {}
        /\ asleep' = asleep \ Broadcast(AllConds)
        /\ UNCHANGED <<streamVars, deliveredEnd, receivedEnd, readEnd, broken,
                       deadlineVars, fired, tCloseDeadline>>

-----------------------------------------------------------------------------
(* Packets from the peer.  A broken or closed channel gets none.           *)

HasRoom == Len(readBuffer) < cReadBufferSize

ReceivedPacket(kind) ==
  /\ mtx = "free" /\ ~broken /\ ~closed
  /\ received < MaxReceived /\ ~receivedEnd
  /\ serverside \/ oSeq >= 1
  /\ received' = received + 1
  /\ \/ ~HasRoom /\ UNCHANGED <<readBuffer, receivedEnd, asleep>>
     \/ /\ HasRoom
        /\ readBuffer' = Append(readBuffer, kind)
        /\ receivedEnd' = (kind # "data")
        /\ \E r \in Signal("cndRead") : asleep' = asleep \ r
  /\ UNCHANGED <<kindVars, at, oSeq, oAckedSeq, iSeq, deliveredEnd, readEnd, broken,
                 closed, deadlineVars, timerVars, mtx>>

ReceivedAck(n) ==
  /\ mtx = "free" /\ reliable /\ ~broken /\ ~closed
  /\ oAckedSeq < n
  /\ oAckedSeq' = n
  /\ \E w \in Signal("cndWrite") :
     \E c \in SignalIf(deliveredEnd \/ receivedEnd, "cndClose") :
       asleep' = asleep \ (w \cup c)
  /\ UNCHANGED <<kindVars, at, oSeq, iSeq, readBuffer, received, endVars, deadlineVars,
                 timerVars, mtx>>

-----------------------------------------------------------------------------
(* Timers.  Stop does not call back a timer that has fired: its callback   *)
(* still runs.                                                             *)

Fire(name) ==
  /\ name \in armed
  /\ armed' = armed \ {name}
  /\ fired' = fired \cup {name}
  /\ UNCHANGED <<kindVars, at, asleep, streamVars, endVars, deadlineVars,
                 tCloseDeadline, mtx>>

\* The channel is marked as broken, the timers "stopped" are stopped.
Break(stopped) ==
  /\ mtx = "free" /\ ~broken
  /\ broken' = TRUE
  /\ armed' = armed \ stopped
  /\ asleep' = asleep \ Broadcast(AllConds)
  /\ UNCHANGED <<kindVars, at, streamVars, deliveredEnd, receivedEnd, readEnd, closed,
                 deadlineVars, tCloseDeadline, mtx>>

Kill == Break(Timers) /\ fired' = fired

\* On a broken channel the callback of the open and close deadlines does nothing.
TooLate(name) ==
  /\ mtx = "free" /\ broken /\ name \in fired
  /\ fired' = fired \ {name}
  /\ UNCHANGED <<kindVars, at, asleep, streamVars, endVars, deadlineVars, armed,
                 tCloseDeadline, mtx>>

OnOpenDeadlineReached ==
  \/ "open" \in fired /\ Break(Timers) /\ fired' = fired \ {"open"}
  \/ TooLate("open")

OnCloseDeadlineReached ==
  \/ "close" \in fired /\ Break({"open", "close"}) /\ fired' = fired \ {"close"}
  \/ TooLate("close")

OnReadDeadlineReached ==
  /\ mtx = "free" /\ "read" \in fired
  /\ fired' = fired \ {"read"}
  /\ readDeadlineReached' = TRUE
  /\ asleep' = asleep \ Broadcast({"cndClose", "cndRead"})
  /\ UNCHANGED <<kindVars, at, streamVars, endVars, writeDeadlineReached, armed,
                 tCloseDeadline, mtx>>

OnWriteDeadlineReached ==
  /\ mtx = "free" /\ "write" \in fired
  /\ fired' = fired \ {"write"}
  /\ writeDeadlineReached' = TRUE
  /\ asleep' = asleep \ Broadcast({"cndClose", "cndWrite"})
  /\ UNCHANGED <<kindVars, at, streamVars, endVars, readDeadlineReached, armed,
                 tCloseDeadline, mtx>>

\* The deadline is cleared, in the past, or in the future.
Deadlines == {"zero", "past", "future"}

\* Stop or Reset of the timers, and what they leave alone.
SetTimers(names, d) ==
  /\ app = "deadlines" /\ mtx = "free"
  /\ armed' = IF d = "future" THEN armed \cup names ELSE armed \ names
  /\ UNCHANGED <<kindVars, at, streamVars, endVars, fired, tCloseDeadline, mtx>>

SetReadDeadline(d) ==
  /\ SetTimers({"read"}, d)
  /\ readDeadlineReached' = (d = "past")
  /\ asleep' = asleep \ Broadcast({"cndClose", "cndRead"})
  /\ UNCHANGED writeDeadlineReached

SetWriteDeadline(d) ==
  /\ SetTimers({"write"}, d)
  /\ writeDeadlineReached' = (d = "past")
  /\ asleep' = asleep \ Broadcast({"cndClose", "cndWrite"})
  /\ UNCHANGED readDeadlineReached

SetDeadline(d) ==
  /\ SetTimers({"read", "write"}, d)
  /\ readDeadlineReached' = (d = "past")
  /\ writeDeadlineReached' = (d = "past")
  /\ asleep' = asleep \ Broadcast(AllConds)

-----------------------------------------------------------------------------
Init ==
  /\ serverside \in BOOLEAN /\ reliable \in BOOLEAN
  /\ app \in Apps /\ (app = "deadlines" => serverside /\ ~reliable)   \* bound
  /\ at = [t \in Threads |-> CASE t \notin Calls(app) -> "idle"
                               [] t \in Writers -> "write" [] t \in Readers -> "read"
                               [] t \in Closers -> "closing" [] OTHER -> "failing"]
  /\ asleep = {}
  /\ oSeq = 0 /\ oAckedSeq = 0 /\ iSeq = 0
  /\ readBuffer = <<>> /\ received = 0
  /\ deliveredEnd = FALSE /\ receivedEnd = FALSE /\ readEnd = FALSE
  /\ broken = FALSE /\ closed = FALSE
  /\ readDeadlineReached = FALSE /\ writeDeadlineReached = FALSE
  /\ armed = {"open"} /\ fired = {} /\ tCloseDeadline = FALSE
  /\ mtx = "free"

Run(t) ==
  \/ WritePacket(t) \/ ReadPacket(t)
  \/ ErrorCall(t) \/ ErrorWrites(t)
  \/ CloseCall(t) \/ CloseWritesEnd(t) \/ CloseDrains(t) \/ CloseReturns(t)

Callback ==
  \/ OnOpenDeadlineReached \/ OnCloseDeadlineReached
  \/ OnReadDeadlineReached \/ OnWriteDeadlineReached

Next ==
  \/ \E t \in Threads : Run(t)
  \/ \E kind \in Kinds : ReceivedPacket(kind)
  \/ \E n \in 1..oSeq : ReceivedAck(n)
  \/ \E name \in Timers : Fire(name)
  \/ Callback
  \/ Kill
  \/ \E d \in Deadlines : SetReadDeadline(d) \/ SetWriteDeadline(d) \/ SetDeadline(d)

Spec == Init /\ [][Next]_vars

\* The Go scheduler runs every runnable goroutine, and a timer that runs fires.
\* Nothing is assumed of the peer or of the application.
Fairness ==
  /\ \A t \in Threads : WF_vars(Run(t))
  /\ \A name \in Timers : WF_vars(Fire(name))
  /\ WF_vars(OnOpenDeadlineReached) /\ WF_vars(OnCloseDeadlineReached)
  /\ WF_vars(OnReadDeadlineReached) /\ WF_vars(OnWriteDeadlineReached)

FairSpec == Spec /\ Fairness

-----------------------------------------------------------------------------
(* Properties.                                                             *)

Blocked(t) ==
  CASE Cond(at[t]) = "cndWrite" -> WriteBlocked
    [] Cond(at[t]) = "cndRead" -> ReadBlocked
    [] Cond(at[t]) = "cndClose" -> CloseBlocked

\* Who waits for the broadcast at the end of the channel.  A Close that is woken and
\* finds the end packet delivered does not pass the signal on to a writer; a read that
\* finds EOF, and a Close that could not deliver its end packet, do not pass it on to
\* another reader.
Released(t) ==
  \/ Cond(at[t]) = "cndWrite" /\ deliveredEnd
  \/ Cond(at[t]) = "cndRead" /\ (readEnd \/ \E k \in Closers : at[k] = "returned")

\* No wake-up is lost.  When no Error was called and every call has returned or
\* sleeps, each sleeper's own condition still holds: whoever made it false
\* signalled it (channel.go 310-315, 540-548 and 612-684, and the broadcasts of
\* Close, Kill and the deadlines), and a signal that woke another goroutine was
\* passed on.  So a deadline that is reached ends the calls it is for.
NoLostWakeup ==
  (\A t \in Threads : IF t \in Failers THEN at[t] \in {"idle", "failing"}
                      ELSE t \in asleep \/ at[t] \in {"idle", "returned"}) =>
     \A t \in asleep : Blocked(t) \/ Released(t)

\* Bound: what must happen in the end is checked of the calls beside Error.
BesideError == app = "errors"

\* A goroutine that waits to read, or to finish its close, returns once the
\* channel is broken, whatever broke it.
BrokenReleasesReaders ==
  []<>(BesideError /\ broken => \A t \in Threads : at[t] \notin {"read", "closeRead", "closeWait"})

\* A write that waits for room or for the first answer returns once the channel
\* is broken.
BrokenReleasesWriters ==
  \A t \in Threads : broken /\ Cond(at[t]) = "cndWrite" ~> at[t] = "returned"

\* Once Close has delivered its end packet it returns, even if the peer is gone:
\* the close deadline breaks the channel.
CloseReturnsInTime ==
  []<>(BesideError => \A t \in Closers : at[t] \notin {"closeRead", "closeWait"})

\* A channel is not abandoned silently.  As long as it is neither broken nor
\* closed, a channel with no answer yet has its open deadline running, and one
\* whose end packet was sent has its close deadline running.
DeadlineGuardsChannel ==
  ~broken /\ ~closed =>
    /\ (IF serverside THEN oSeq = 0 ELSE iSeq = 0) => "open" \in armed \cup fired
    /\ deliveredEnd => "close" \in armed \cup fired
=============================================================================
