-------------------------------- MODULE Paths --------------------------------
(***************************************************************************)
(* How the addresses of an endpoint reach its peers: the netwatch module   *)
(* (e3x/endpoint_mod_netwatch.go) compares the transport's addresses every *)
(* second and triggers the NetChanged hooks (e3x/hooks.go); the paths      *)
(* module (internal/modules/paths) then offers the addresses of the        *)
(* endpoint to the peer of every exchange, which adds them as candidates.  *)
(*                                                                         *)
(* The timer is armed again before the work is done and nothing is locked, *)
(* so that two updates may overlap, and overlap Stop.                      *)
(***************************************************************************)
EXTENDS Naturals, Sequences, FiniteSets

CONSTANTS
  Addresses,   \* that the transport may have
  Unreadable,  \* of them, those whose type the peer does not know
  Exchanges,   \* of the endpoint
  Updates,     \* update calls that may overlap
  MaxChanges   \* bound: changes of the transport's addresses

VARIABLES
  local,       \* e.transport.Addrs()
  changes,
  modules,     \* of the endpoint: "initialised", "started" or "stopped"
  timer,       \* mod.timer: "nil", "stopped" or "armed"
  panicked,    \* mod.timer was nil when it was used
  addresses,   \* mod.addresses
  update,      \* of each update call: what it does
  link,        \* of each exchange: "new", "open" or "closed"
  negotiators, \* of each exchange: negotiatePaths calls that have not read the addresses
  offered,     \* of each exchange: the paths packets written
  candidates   \* of each exchange: the addresses that its peer has added

vars == <<local, changes, modules, timer, panicked, addresses, update, link,
          negotiators, offered, candidates>>

netwatch == <<modules, timer, panicked, addresses, update>>
paths == <<link, negotiators, offered, candidates>>

Idle == [at |-> "idle"]
Does(u, what) == update' = [update EXCEPT ![u] = what]

-----------------------------------------------------------------------------
(* The hooks                                                               *)

\* onNetChange of the paths module: one goroutine for each exchange, if there are
\* addresses to offer.
OnNetChange(up) ==
  negotiators' = [x \in Exchanges |->
                    negotiators[x] + IF up # {} /\ link[x] = "open" THEN 1 ELSE 0]

\* trigger calls the hooks in turn, until one returns an error; the hook of the paths
\* module is the only one for NetChanged.
NetChanged(up) == OnNetChange(up) /\ UNCHANGED <<link, offered, candidates>>

\* ExchangeHooks.Opened: onNewLink.
OnNewLink(x) ==
  /\ modules = "started" /\ link[x] = "new"
  /\ link' = [link EXCEPT ![x] = "open"]
  /\ negotiators' = [negotiators EXCEPT ![x] = @ + 1]
  /\ UNCHANGED <<local, changes, netwatch, offered, candidates>>

-----------------------------------------------------------------------------
(* Netwatch                                                                *)

\* Start: an update by the caller, then the timer.
Start ==
  /\ modules = "initialised"
  /\ modules' = "started" /\ timer' = "armed" /\ addresses' = local
  /\ NetChanged(local)
  /\ UNCHANGED <<local, changes, panicked, update>>

Stop ==
  /\ modules = "started"
  /\ modules' = "stopped" /\ timer' = "nil"
  /\ UNCHANGED <<local, changes, panicked, addresses, update, paths>>

\* The timer fires: update has found mod.timer not to be nil.
Fire(u) ==
  /\ timer = "armed" /\ update[u] = Idle
  /\ timer' = "stopped" /\ Does(u, [at |-> "reset"])
  /\ UNCHANGED <<local, changes, modules, panicked, addresses, paths>>

\* Mutant of Reset: the timer is not armed again.
NoReset(u) ==
  /\ update[u].at = "reset"
  /\ Does(u, [at |-> "compare", addrs |-> local])
  /\ UNCHANGED <<local, changes, modules, timer, panicked, addresses, paths>>

\* mod.timer.Reset, unless Stop has made it nil; then the addresses are read.
Reset(u) ==
  /\ update[u].at = "reset"
  /\ IF timer = "nil" THEN panicked' = TRUE /\ UNCHANGED timer
                      ELSE timer' = "armed" /\ UNCHANGED panicked
  /\ Does(u, IF timer = "nil" THEN Idle ELSE [at |-> "compare", addrs |-> local])
  /\ UNCHANGED <<local, changes, modules, addresses, paths>>

\* Each address that is gone makes a new list: the new addresses and itself.
OldAddrs(new, gone) == {new \cup {x} : x \in gone} \cup IF gone = {} THEN {{}} ELSE {}

\* The two loops, and mod.addresses = update.
Compare(u) ==
  /\ update[u].at = "compare"
  /\ LET addrs == update[u].addrs
         new   == addrs \ addresses
     IN \E old \in OldAddrs(new, addresses \ addrs) :
          /\ addresses' = addrs
          /\ Does(u, [at |-> "hooks", up |-> new, down |-> old])
  /\ UNCHANGED <<local, changes, modules, timer, panicked, paths>>

\* NetChanged, when there is a change.
Hooks(u) ==
  /\ update[u].at = "hooks"
  /\ IF update[u].up # {} \/ update[u].down # {}
     THEN NetChanged(update[u].up) ELSE UNCHANGED paths
  /\ Does(u, Idle)
  /\ UNCHANGED <<local, changes, modules, timer, panicked, addresses>>

-----------------------------------------------------------------------------
(* The paths module                                                        *)

\* negotiatePaths: the addresses are read now, and written to a new path channel.
NegotiatePaths(x) ==
  /\ negotiators[x] > 0
  /\ negotiators' = [negotiators EXCEPT ![x] = @ - 1]
  /\ offered' = [offered EXCEPT ![x] = IF link[x] = "open" THEN @ \cup {local} ELSE @]
  /\ UNCHANGED <<local, changes, netwatch, link, candidates>>

\* handlePathRequest of the peer, for a packet that has arrived: every address that
\* DecodeAddr knows becomes a candidate.
HandlePathRequest(x, addrs) ==
  /\ addrs \in offered[x]
  /\ candidates' = [candidates EXCEPT ![x] = @ \cup (addrs \ Unreadable)]
  /\ UNCHANGED <<local, changes, netwatch, link, negotiators, offered>>

-----------------------------------------------------------------------------
(* The rest of the endpoint                                                *)

Change ==
  /\ changes < MaxChanges
  /\ changes' = changes + 1
  /\ \E a \in SUBSET Addresses : a # local /\ local' = a
  /\ UNCHANGED <<netwatch, paths>>

CloseExchange(x) ==
  /\ link[x] = "open"
  /\ link' = [link EXCEPT ![x] = "closed"]
  /\ UNCHANGED <<local, changes, netwatch, negotiators, offered, candidates>>

-----------------------------------------------------------------------------

Init ==
  /\ local \in {{a} : a \in Addresses} /\ changes = 0
  /\ modules = "initialised" /\ timer = "nil" /\ panicked = FALSE
  /\ addresses = {} /\ update = [u \in Updates |-> Idle]
  /\ link = [x \in Exchanges |-> "new"] /\ negotiators = [x \in Exchanges |-> 0]
  /\ offered = [x \in Exchanges |-> {}] /\ candidates = [x \in Exchanges |-> {}]

Next ==
  \/ Start \/ Stop \/ Change
  \/ \E u \in Updates : Fire(u) \/ Reset(u) \/ Compare(u) \/ Hooks(u)
  \/ \E x \in Exchanges :
       \/ OnNewLink(x) \/ CloseExchange(x) \/ NegotiatePaths(x)
       \/ \E addrs \in offered[x] : HandlePathRequest(x, addrs)

\* Timers fire and goroutines run.  Nothing makes a packet arrive.
Fairness ==
  /\ \A u \in Updates : WF_vars(Reset(u)) /\ WF_vars(Compare(u)) /\ WF_vars(Hooks(u))
  /\ WF_vars(\E u \in Updates : Fire(u))
  /\ \A x \in Exchanges : WF_vars(NegotiatePaths(x))

Spec == Init /\ [][Next]_vars /\ Fairness

-----------------------------------------------------------------------------
(* Properties.                                                             *)

\* An address that netwatch does not know yet, and that stays, is offered to the peer
\* of every exchange that stays open, however the changes, the updates that overlap
\* and the opening of the exchange interleave, unless the endpoint is stopped
\* (update, onNetChange, onNewLink, negotiatePaths).
AddressesAreOffered ==
  \A x \in Exchanges, a \in Addresses :
    (modules = "started" /\ link[x] = "open" /\ a \in local \ addresses)
      ~> (modules # "started" \/ link[x] # "open" \/ a \notin local \/ \E o \in offered[x] : a \in o)

=============================================================================
