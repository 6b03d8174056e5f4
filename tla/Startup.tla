------------------------------- MODULE Startup -------------------------------
(***************************************************************************)
(* How an endpoint is opened and closed: telehash.Open (api.go), Open,     *)
(* setOptions, start and close (e3x/endpoint.go), and the modules that the *)
(* options register.                                                       *)
(*                                                                         *)
(* e.modules is a map, so its modules are visited in any order.  A module  *)
(* may fail to initialise, start or stop, and the transport may fail to    *)
(* open.                                                                   *)
(***************************************************************************)
EXTENDS Naturals, Sequences

CONSTANTS
  UserModules,   \* keys of the modules that an application brings
  MaxOptions,    \* bound: the options that an application passes to Open
  NilOptions     \* bound: the nil options that telehash.Open leaves in its slice

\* Registered by every Open; and by telehash.Open.
OwnModules == {"transports", "netwatch"}
ApiModules == <<[opt |-> "module", key |-> "paths"], [opt |-> "module", key |-> "bridge"]>>
\* The options that applications pass to Open, in any order and repeated.
AnyOption == [opt : {"keys", "transport"}] \cup [opt : {"module"}, key : UserModules]
Programs == UNION {[1..n -> AnyOption] : n \in 0..MaxOptions}
Modules == OwnModules \cup {"paths", "bridge"} \cup UserModules

VARIABLES
  pc,          \* where Open or Close is
  options,     \* options that are still to be applied
  endpointState,       \* e.state
  modules,     \* of each module: where it is in its life
  keys,        \* e.keys is set
  config,      \* e.transportConfig: "nil" or whose
  transport,   \* "nil", "open" or "closed"
  accepting,        \* acceptConnections runs
  startFailed       \* e.err is set

startupVars == <<pc, options, endpointState, modules, keys, config, transport, accepting, startFailed>>

rest == <<endpointState, keys, config, transport, accepting, startFailed>>

-----------------------------------------------------------------------------
(* Open and its options                                                    *)

Nil == [opt |-> "nil"]

\* The slice is made with len(options)+10 elements and appended to: ten nils remain
\* between the options of the application and the two modules.
InnerOptions(opts) == opts \o [i \in 1..NilOptions |-> Nil] \o ApiModules

\* telehash.Open, or e3x.Open itself.
OpenEndpoint(opts) ==
  /\ pc = "new"
  /\ modules' = [m \in Modules |-> IF m \in OwnModules THEN "registered" ELSE "unknown"]
  /\ options' \in {opts, InnerOptions(opts)}
  /\ pc' = "options"
  /\ UNCHANGED rest

OptionApplied == options' = Tail(options)
Option(opt) == pc = "options" /\ options # <<>> /\ Head(options).opt = opt

\* state stays Unknown while the endpoint runs: only a second key of the same name,
\* or an endpoint that was closed, is refused.
RegisterModule ==
  /\ Option("module") /\ OptionApplied
  /\ LET key == Head(options).key
     IN IF endpointState # "unknown" \/ modules[key] # "unknown"
        THEN pc' = "panic" /\ UNCHANGED modules
        ELSE modules' = [modules EXCEPT ![key] = "registered"] /\ UNCHANGED pc
  /\ UNCHANGED rest

\* Keys that are there stay; FromKeys may refuse the new ones.
Keys ==
  /\ Option("keys") /\ OptionApplied
  /\ \/ keys' = TRUE /\ UNCHANGED pc
     \/ ~keys /\ pc' = "error" /\ UNCHANGED keys
  /\ UNCHANGED <<modules, endpointState, config, transport, accepting, startFailed>>

Transport ==
  /\ Option("transport") /\ OptionApplied
  /\ IF config # "nil"
     THEN pc' = "error" /\ UNCHANGED config
     ELSE config' = "given" /\ UNCHANGED pc
  /\ UNCHANGED <<modules, endpointState, keys, transport, accepting, startFailed>>

\* A nil function is called.
NilOption ==
  /\ Option("nil") /\ OptionApplied
  /\ pc' = "panic"
  /\ UNCHANGED <<modules, rest>>

\* defaultRandomKeys and defaultTransport.
Defaults ==
  /\ pc = "options" /\ options = <<>>
  /\ \/ keys' = TRUE /\ pc' = "init"
        /\ config' = IF config = "nil" THEN "default" ELSE config
     \/ ~keys /\ pc' = "error" /\ UNCHANGED <<keys, config>>
  /\ UNCHANGED <<options, modules, endpointState, transport, accepting, startFailed>>

-----------------------------------------------------------------------------
(* start                                                                   *)

To(m, life) == modules' = [modules EXCEPT ![m] = life]
In(life) == {m \in Modules : modules[m] = life}

\* Mutant of StartFails: Open returns the error of start at once.
StartFailsReturns ==
  /\ pc' = "error" /\ startFailed' = TRUE
  /\ UNCHANGED <<options, modules, endpointState, keys, config, transport, accepting>>

\* What a failed start does: e.err is kept, and Open calls close, which unlocks a
\* mutex that is not locked: the runtime ends the program.
StartFails ==
  /\ pc' = "fatal" /\ startFailed' = TRUE
  /\ UNCHANGED <<options, modules, endpointState, keys, config, transport, accepting>>

\* Init; a module may wrap the transport's configuration.
InitModule(m) ==
  /\ pc = "init" /\ m \in In("registered")
  /\ To(m, "initialised")
  /\ config' \in {config, "wrapped"}
  /\ UNCHANGED <<pc, options, endpointState, keys, transport, accepting, startFailed>>

InitFails(m) == pc = "init" /\ m \in In("registered") /\ StartFails

OpenTransport ==
  /\ pc = "init" /\ In("registered") = {}
  /\ pc' = "start" /\ transport' = "open" /\ accepting' = TRUE
  /\ UNCHANGED <<options, modules, endpointState, keys, config, startFailed>>

OpenTransportFails == pc = "init" /\ In("registered") = {} /\ StartFails

StartModule(m) ==
  /\ pc = "start" /\ m \in In("initialised")
  /\ To(m, "started")
  /\ UNCHANGED <<pc, options, rest>>

StartModuleFails(m) == pc = "start" /\ m \in In("initialised") /\ StartFails

\* Open returns the endpoint.
Opened ==
  /\ pc = "start" /\ In("initialised") = {}
  /\ pc' = "open"
  /\ UNCHANGED <<options, modules, rest>>

\* An option is a function that may be kept, and applied to a running endpoint.
LateRegister(m) ==
  /\ pc = "open"
  /\ IF endpointState # "unknown" \/ modules[m] # "unknown"
     THEN pc' = "panic" /\ UNCHANGED modules
     ELSE To(m, "registered") /\ UNCHANGED pc
  /\ UNCHANGED <<options, rest>>

-----------------------------------------------------------------------------
(* Close, which may be called again                                        *)

Unstopped == {m \in Modules : modules[m] \notin {"unknown", "stopped"}}

Close ==
  /\ pc = "open"
  /\ pc' = "close"
  /\ modules' = [m \in Modules |-> IF modules[m] = "stopped" THEN "started" ELSE modules[m]]
  /\ UNCHANGED <<options, rest>>

StopModule(m) ==
  /\ pc = "close" /\ m \in Unstopped
  /\ To(m, "stopped")
  /\ UNCHANGED <<pc, options, rest>>

\* Close returns the error: the modules that are left and the transport go on.
StopModuleFails(m) ==
  /\ pc = "close" /\ m \in Unstopped
  /\ pc' = "open" /\ startFailed' = TRUE
  /\ UNCHANGED <<options, modules, endpointState, keys, config, transport, accepting>>

\* The transport ends the accept loop.  state was never Running.
CloseTransport ==
  /\ pc = "close" /\ Unstopped = {}
  /\ pc' = "open" /\ transport' = "closed" /\ accepting' = FALSE
  /\ endpointState' = IF endpointState = "running" THEN "terminated" ELSE "broken"
  /\ UNCHANGED <<options, modules, keys, config, startFailed>>

-----------------------------------------------------------------------------

StartupInit ==
  /\ pc = "new" /\ options = <<>> /\ endpointState = "unknown"
  /\ modules = [m \in Modules |-> "unknown"]
  /\ keys = FALSE /\ config = "nil" /\ transport = "nil" /\ accepting = FALSE /\ startFailed = FALSE

OpenStep ==
  \/ (\E opts \in Programs : OpenEndpoint(opts))
  \/ RegisterModule \/ Keys \/ Transport \/ NilOption \/ Defaults
StartStep ==
  \/ OpenTransport \/ OpenTransportFails \/ Opened
  \/ \E m \in Modules : InitModule(m) \/ InitFails(m) \/ StartModule(m) \/ StartModuleFails(m)
StartupCloseStep ==
  \/ Close \/ CloseTransport
  \/ \E m \in Modules : StopModule(m) \/ StopModuleFails(m)

StartupNext == OpenStep \/ StartStep \/ StartupCloseStep \/ \E m \in UserModules : LateRegister(m)

StartupSpec == StartupInit /\ [][StartupNext]_startupVars

-----------------------------------------------------------------------------
(* Properties.                                                             *)

\* An Open that returns an error has left nothing behind: no transport is open, no
\* accept loop runs, no module was initialised (Open, start, close).
FailedOpenLeavesNothing ==
  pc = "error" =>
    /\ transport # "open" /\ ~accepting
    /\ \A m \in Modules : modules[m] \in {"unknown", "registered"}

=============================================================================
