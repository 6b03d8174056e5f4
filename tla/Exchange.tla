------------------------------ MODULE Exchange ------------------------------
(***************************************************************************)
(* The life of one exchange (e3x/exchange.go): its state, the goroutines   *)
(* in Dial and Open, its channels, its timers, and how it expires.         *)
(*                                                                         *)
(* A stretch of code under x.mtx is one step.  Handshakes are abstract     *)
(* here (see Handshake); a channel is what its exchange sees of it.        *)
(***************************************************************************)
EXTENDS Naturals, FiniteSets

CONSTANTS
  Local,      \* channels the application opens
  Remote,     \* channels the peer opens
  MayWrite,   \* bound: the channels that transmit
  Dialer      \* the goroutine in Dial

Chans == Local \cup Remote
Callers == Local \cup {Dialer}   \* the goroutines that wait for the state
ExchangeTimers == {"tBreak", "tExpire", "tDeliverHandshake"}

VARIABLES
  state,
  leaked,      \* x.mtx was left locked by a goroutine that has returned
  running, firing,    \* timers that run; timers whose callback waits for x.mtx
  caller,          \* where each caller is
  chan,        \* each channel: "new", "open", "broken" or "closed"
  registered,    \* the registered ones (x.channels)
  admitted,    \* packets that passed the state check, by the channel they open
  delivering,  \* channels in deliverPacket, with c.mtx held
  removing,    \* channels whose closed hook is to run
  resets,      \* channels whose opener or closer is to call resetExpire
  expirer,     \* the progress of expire
  todo, hooked,  \* expire: channels to break, channel whose hook runs
  finished     \* the closed hooks of the exchange ran

lifeVars == <<state, leaked, running, firing, caller>>
chanVars == <<chan, registered, admitted, delivering, removing, resets>>
expireVars == <<expirer, todo, hooked, finished>>
exchangeVars == <<lifeVars, chanVars, expireVars>>

IsOpen(s) == s \in {"idle", "active"}
IsClosed(s) == s \in {"expired", "broken"}

\* Mutant of Woken: nobody is woken.
StillAsleep == caller

\* cndState.Broadcast
Woken == [g \in Callers |-> IF caller[g] = "asleep" THEN "loop" ELSE caller[g]]

\* Mutant of ResetExpire: a closed state is not kept.
ResetExpireReopens(set, s, timers, others) ==
  /\ running' = IF set # {} THEN timers \ {"tExpire"} ELSE timers \cup {"tExpire"}
  /\ state' = IF set # {} THEN "active" ELSE "idle"
  /\ caller' = others

\* resetExpire, with the channels and the state it finds.  The caller keeps the
\* other waiters' state in "others".
ResetExpire(set, s, timers, others) ==
  /\ running' = IF set # {} THEN timers \ {"tExpire"}
              ELSE IF IsOpen(s) THEN timers \cup {"tExpire"} ELSE timers
  /\ state' = IF IsOpen(s) THEN (IF set # {} THEN "active" ELSE "idle") ELSE s
  /\ caller' = others

-----------------------------------------------------------------------------
(* Dial and Open wait while the exchange is dialing.                       *)

Dial ==
  /\ ~leaked /\ caller[Dialer] = "idle"
  /\ caller' = [caller EXCEPT ![Dialer] = "loop"]
  /\ \/ /\ state = "initialising"
        /\ state' = "dialing"
        /\ running' = running \cup {"tDeliverHandshake"}
     \/ state # "initialising" /\ UNCHANGED <<state, running>>
  /\ UNCHANGED <<leaked, firing, chanVars, expireVars>>

DialWaits ==
  /\ ~leaked /\ caller[Dialer] = "loop"
  /\ caller' = [caller EXCEPT ![Dialer] = IF state = "dialing" THEN "asleep"
                                  ELSE IF IsOpen(state) THEN "ok" ELSE "failed"]
  /\ UNCHANGED <<state, leaked, running, firing, chanVars, expireVars>>

OpenCall(c) ==
  /\ caller[c] = "idle"
  /\ caller' = [caller EXCEPT ![c] = "loop"]
  /\ UNCHANGED <<state, leaked, running, firing, chanVars, expireVars>>

Open(c) ==
  /\ ~leaked /\ caller[c] = "loop"
  /\ \/ /\ state = "dialing"
        /\ caller' = [caller EXCEPT ![c] = "asleep"]
        /\ UNCHANGED <<state, running, chan, registered>>
     \/ /\ state # "dialing" /\ ~IsOpen(state)
        /\ caller' = [caller EXCEPT ![c] = "failed"]
        /\ UNCHANGED <<state, running, chan, registered>>
     \/ /\ IsOpen(state)
        /\ chan' = [chan EXCEPT ![c] = "open"]
        /\ registered' = registered \cup {c}
        /\ ResetExpire(registered', state, running, [Woken EXCEPT ![c] = "ok"])
  /\ UNCHANGED <<leaked, firing, admitted, delivering, removing, resets, expireVars>>

-----------------------------------------------------------------------------
(* Handshakes and packets from the peer.                                   *)

\* An accepted handshake; a response (a local seq) also resets tBreak.
ApplyHandshake(isResponse) ==
  /\ ~leaked /\ ~finished
  /\ LET timers == IF isResponse THEN running \cup {"tBreak"} ELSE running
     IN \/ /\ state \in {"dialing", "initialising"}
           /\ ResetExpire(registered, "idle", timers, Woken)
        \/ /\ state \notin {"dialing", "initialising"}
           /\ running' = timers
           /\ UNCHANGED <<state, caller>>
  /\ UNCHANGED <<leaked, firing, chanVars, expireVars>>

\* receivedPacket reads the state, and goes on without x.mtx.
receivedPacket(c) ==
  /\ ~leaked /\ IsOpen(state)
  /\ chan[c] = "new" /\ c \notin admitted
  /\ admitted' = admitted \cup {c}
  /\ UNCHANGED <<lifeVars, chan, registered, delivering, removing, resets, expireVars>>

AddChannel(c) ==
  /\ c \in admitted
  /\ admitted' = admitted \ {c}
  /\ chan' = [chan EXCEPT ![c] = "open"]
  /\ registered' = registered \cup {c}
  /\ resets' = resets \cup {c}
  /\ UNCHANGED <<lifeVars, delivering, removing, expireVars>>

\* The call of resetExpire that follows an addition or a removal.
ResetAfter(c) ==
  /\ ~leaked /\ c \in resets
  /\ resets' = resets \ {c}
  /\ ResetExpire(registered, state, running, Woken)
  /\ UNCHANGED <<leaked, firing, chan, registered, admitted, delivering, removing,
                 expireVars>>

-----------------------------------------------------------------------------
(* Channels transmit with c.mtx held.                                      *)

\* A write on an open channel, or the ack timer: it is still running on a channel
\* that expire has broken, and does not look whether it is.
Transmit(c) ==
  /\ c \in MayWrite \ delivering
  /\ chan[c] \in {"open", "broken"}
  /\ delivering' = delivering \cup {c}
  /\ UNCHANGED <<lifeVars, chan, registered, admitted, removing, resets, expireVars>>

\* On an exchange that is not open deliverPacket returns without unlocking x.mtx.
DeliverPacket(c) ==
  /\ ~leaked /\ c \in delivering /\ state # "dialing"
  /\ delivering' = delivering \ {c}
  /\ leaked' = ~IsOpen(state)
  /\ UNCHANGED <<state, running, firing, caller, chan, registered, admitted, removing, resets,
                 expireVars>>

\* The channel closes, or breaks by itself; its closed hook runs afterwards.
ChannelCloses(c) ==
  /\ chan[c] = "open" /\ c \notin delivering
  /\ chan' = [chan EXCEPT ![c] = "closed"]
  /\ removing' = removing \cup {c}
  /\ UNCHANGED <<lifeVars, registered, admitted, delivering, resets, expireVars>>

UnregisterChannel(c) ==
  /\ c \in removing
  /\ removing' = removing \ {c}
  /\ registered' = registered \ {c}
  /\ resets' = IF c \in registered THEN resets \cup {c} ELSE resets
  /\ UNCHANGED <<lifeVars, chan, admitted, delivering, expireVars>>

-----------------------------------------------------------------------------
(* Timers and expire.                                                      *)

TimerFires(t) ==
  /\ t \in running
  /\ running' = running \ {t}
  /\ firing' = firing \cup {t}
  /\ UNCHANGED <<state, leaked, caller, chanVars, expireVars>>

\* It arms its own timer again, whatever the state.
OnDeliverHandshake ==
  /\ ~leaked /\ "tDeliverHandshake" \in firing
  /\ firing' = firing \ {"tDeliverHandshake"}
  /\ running' = running \cup {"tDeliverHandshake"}
  /\ UNCHANGED <<state, leaked, caller, chanVars, expireVars>>

Expire(t, closedState) ==
  /\ ~leaked /\ t \in firing
  /\ firing' = firing \ {t}
  /\ \/ IsClosed(state) /\ UNCHANGED <<state, running, caller, expirer>>
     \/ /\ ~IsClosed(state)
        /\ state' = closedState
        /\ running' = {}
        /\ caller' = Woken
        /\ expirer' = "snapshot"
  /\ UNCHANGED <<leaked, chanVars, todo, hooked, finished>>

OnExpire == Expire("tExpire", "expired")
OnBreak == Expire("tBreak", "broken")

AllChannels ==
  /\ expirer = "snapshot"
  /\ expirer' = "breaking"
  /\ todo' = registered
  /\ UNCHANGED <<lifeVars, chanVars, hooked, finished>>

\* onCloseDeadlineReached of one channel; its hook removes it from the set, and
\* then takes x.mtx.
BreakChannel(c) ==
  /\ expirer = "breaking" /\ hooked = {}
  /\ c \in todo \ delivering
  /\ todo' = todo \ {c}
  /\ \/ /\ chan[c] = "broken"
        /\ UNCHANGED <<chan, registered, hooked>>
     \/ /\ chan[c] # "broken"
        /\ chan' = [chan EXCEPT ![c] = "broken"]
        /\ registered' = registered \ {c}
        /\ hooked' = IF c \in registered THEN {c} ELSE {}
  /\ UNCHANGED <<lifeVars, admitted, delivering, removing, resets, expirer, finished>>

HookReturns ==
  /\ ~leaked /\ hooked # {}
  /\ hooked' = {}
  /\ ResetExpire(registered, state, running, Woken)
  /\ UNCHANGED <<leaked, firing, chanVars, expirer, todo, finished>>

\* Mutant of FinishExpire: it waits for the set of channels to be empty.
FinishExpireWaits ==
  /\ expirer = "breaking" /\ todo = {} /\ hooked = {} /\ registered = {}
  /\ expirer' = "done"
  /\ finished' = TRUE
  /\ UNCHANGED <<lifeVars, chanVars, todo, hooked>>

\* The pipes are closed, and the closed hooks tell the endpoint.
FinishExpire ==
  /\ expirer = "breaking" /\ todo = {} /\ hooked = {}
  /\ expirer' = "done"
  /\ finished' = TRUE
  /\ UNCHANGED <<lifeVars, chanVars, todo, hooked>>

-----------------------------------------------------------------------------
ExchangeInit ==
  /\ state = "initialising" /\ leaked = FALSE
  /\ running = ExchangeTimers /\ firing = {}
  /\ caller = [g \in Callers |-> "idle"]
  /\ chan = [c \in Chans |-> "new"]
  /\ registered = {} /\ admitted = {} /\ delivering = {} /\ removing = {} /\ resets = {}
  /\ expirer = "no" /\ todo = {} /\ hooked = {} /\ finished = FALSE

ChannelStep(c) ==
  \/ AddChannel(c) \/ ResetAfter(c) \/ DeliverPacket(c) \/ UnregisterChannel(c)

ExpireStep ==
  \/ AllChannels \/ (\E c \in Chans : BreakChannel(c)) \/ HookReturns \/ FinishExpire

ExchangeNext ==
  \/ Dial \/ DialWaits
  \/ \E c \in Local : OpenCall(c) \/ Open(c)
  \/ \E isResponse \in BOOLEAN : ApplyHandshake(isResponse)
  \/ \E c \in Remote : receivedPacket(c)
  \/ \E c \in Chans : Transmit(c) \/ ChannelCloses(c) \/ ChannelStep(c)
  \/ \E t \in ExchangeTimers : TimerFires(t)
  \/ OnDeliverHandshake \/ OnExpire \/ OnBreak
  \/ ExpireStep

ExchangeSpec == ExchangeInit /\ [][ExchangeNext]_exchangeVars

\* Goroutines that can run do, and timers that run fire.  Nothing is assumed of
\* the peer or of the application.
ExchangeFairness ==
  /\ WF_exchangeVars(DialWaits) /\ \A c \in Local : WF_exchangeVars(Open(c))
  /\ \A c \in Chans : WF_exchangeVars(ChannelStep(c))
  /\ \A t \in ExchangeTimers : WF_exchangeVars(TimerFires(t))
  /\ WF_exchangeVars(OnDeliverHandshake) /\ WF_exchangeVars(OnExpire) /\ WF_exchangeVars(OnBreak)
  /\ WF_exchangeVars(ExpireStep)

ExchangeFairSpec == ExchangeSpec /\ ExchangeFairness

-----------------------------------------------------------------------------
(* Properties.                                                             *)

\* Someone is about to call resetExpire.
ResetPending == resets \cup hooked # {}

\* An exchange that is not closed is supervised: tBreak runs until the peer is
\* silent for two minutes; with no channel left tExpire runs; and with a channel
\* registered tExpire has been stopped and the exchange is active.
Supervised ==
  /\ ~IsClosed(state) => "tBreak" \in running \cup firing
  /\ IsOpen(state) /\ ~ResetPending =>
       IF registered = {} THEN state = "idle" /\ "tExpire" \in running \cup firing
       ELSE state = "active" /\ "tExpire" \notin running

\* Dial and Open return: a handshake opens the exchange, or a timer ends it, and both
\* wake the callers, each of which calls once.  (This and the next hold as long as nobody
\* has left x.mtx locked, see below.)
CallersReturn ==
  []<>(leaked \/ \A g \in Callers : caller[g] \in {"idle", "ok", "failed"})

\* An exchange that is closed breaks its channels, closes its pipes and tells the
\* endpoint.
ExpireFinishes == []<>(IsClosed(state) => finished \/ leaked)

\* Endpoint.Close returns after a conversation ("assert.NoError(A.Close())",
\* bridge_test.go 163): onBreak of each exchange runs to its end.
ExpireAlwaysFinishes == IsClosed(state) ~> finished
=============================================================================
