------------------------------ MODULE MCCalls ------------------------------
(***************************************************************************)
(* Model checking of the calls that block: Dial and Open on an exchange,   *)
(* with its timers and its end, and the calls on one side of a channel.    *)
(* The two are checked side by side: a behaviour runs one of them, and the *)
(* other does not move.                                                    *)
(***************************************************************************)
EXTENDS ChannelSync, Exchange

VARIABLE part   \* the component that runs

callsVars == <<part, exchangeVars, vars>>

\* A channel is opened by one side, and the goroutines are different ones.
ASSUME CallsAssumption ==
  /\ Local \cap Remote = {} /\ MayWrite \subseteq Chans /\ Dialer \notin Chans
  /\ Apps \subseteq {"plain", "deadlines", "errors"}
  /\ {MaxReceived, cReadBufferSize, cWriteBufferSize} \subseteq Nat
  /\ DeadlineCalls \cup ErrorCalls \subseteq Threads

CallsInit ==
  /\ part \in {"exchange", "sync"}
  /\ ExchangeInit /\ Init
  /\ part # "sync" => ~serverside /\ ~reliable /\ app = "plain"

CallsNext ==
  \/ part = "exchange" /\ ExchangeNext /\ UNCHANGED <<part, vars>>
  \/ part = "sync" /\ Next /\ UNCHANGED <<part, exchangeVars>>

Live == part = "sync" /\ BesideError

\* Fairness of Exchange and of ChannelSync, each for its own steps.
CallsFairness ==
  /\ WF_callsVars(part = "exchange" /\ DialWaits /\ UNCHANGED <<part, vars>>)
  /\ \A c \in Local : WF_callsVars(part = "exchange" /\ Open(c) /\ UNCHANGED <<part, vars>>)
  /\ \A c \in Chans : WF_callsVars(part = "exchange" /\ ChannelStep(c) /\ UNCHANGED <<part, vars>>)
  /\ \A t \in ExchangeTimers :
       WF_callsVars(part = "exchange" /\ TimerFires(t) /\ UNCHANGED <<part, vars>>)
  /\ WF_callsVars(part = "exchange" /\ OnDeliverHandshake /\ UNCHANGED <<part, vars>>)
  /\ WF_callsVars(part = "exchange" /\ OnExpire /\ UNCHANGED <<part, vars>>)
  /\ WF_callsVars(part = "exchange" /\ OnBreak /\ UNCHANGED <<part, vars>>)
  /\ WF_callsVars(part = "exchange" /\ ExpireStep /\ UNCHANGED <<part, vars>>)
  /\ \A t \in Threads : WF_callsVars(Live /\ Run(t) /\ UNCHANGED <<part, exchangeVars>>)
  /\ \A name \in Timers : WF_callsVars(Live /\ Fire(name) /\ UNCHANGED <<part, exchangeVars>>)
  /\ WF_callsVars(Live /\ Callback /\ UNCHANGED <<part, exchangeVars>>)

CallsSpec == CallsInit /\ [][CallsNext]_callsVars /\ CallsFairness
=============================================================================
