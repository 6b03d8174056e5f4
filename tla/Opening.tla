------------------------------- MODULE Opening -------------------------------
(***************************************************************************)
(* How the channels of an endpoint's exchanges get their numbers, their    *)
(* hooks and their listeners (e3x/exchange.go: registerEndpoint, Open,     *)
(* getNextChannelID, unregisterChannel; hooks.go; listener.go:             *)
(* listenerSet; channel_set.go).                                           *)
(*                                                                         *)
(* Hooks are kept in Go slices, which an exchange copies from its endpoint *)
(* and a channel from its exchange: a slice is an array and a length, and  *)
(* a copy shares the array.  The peer of an exchange numbers its channels  *)
(* with the same code.                                                     *)
(***************************************************************************)
EXTENDS Naturals, Sequences, Functions

CONSTANTS
  OpenExchanges,  \* of the endpoint
  High,           \* those in which the endpoint is the high side
  IdLimit,        \* 2^32
  Types,          \* channel types
  MaxHooks,       \* bound: channel hooks that the application registers
  MaxOpened       \* bound: channels opened

\* Numbers wrap where an odd one follows an even one (uint32).
ASSUME OpeningAssumption ==
  /\ IdLimit \in Nat /\ IdLimit > 2 /\ IdLimit % 2 = 0
  /\ MaxHooks \in Nat /\ "app" \notin OpenExchanges

VARIABLES
  arrays,        \* the arrays of the slices: a hook, or "free", in each place
  eHooks,        \* e.channelHooks
  xHooks,        \* x.channelHooks of each exchange, or NilSlice before there is one
  listeners,     \* types that are listened to: the listeners of the endpoint's set
  nextId,        \* nextChannelID of both sides of each exchange
  numbered,      \* x.channels: the channel of each number, or 0
  opened,        \* the channels, in the order in which they were opened
  openChannels,  \* channels that are not closed
  stopped,       \* channels whose closed hooks the application has stopped
  outlived,      \* history: a number came round while its channel was still open
  mixed          \* history: a channel of the peer's was taken for one of the endpoint's

hookVars == <<arrays, eHooks, xHooks>>
channelVars == <<nextId, numbered, opened, openChannels, stopped, outlived, mixed>>
openingVars == <<hookVars, listeners, channelVars>>

NilSlice == [arr |-> 0, len |-> 0]
Sides == {"local", "peer"}

-----------------------------------------------------------------------------
(* Hooks                                                                   *)

Cap(slice) == IF slice.arr = 0 THEN 0 ELSE Len(arrays[slice.arr])

Hooks(slice) == IF slice.arr = 0 THEN <<>> ELSE SubSeq(arrays[slice.arr], 1, slice.len)

\* append: in place while the array has room, else in a new one of twice the size.
Grown(slice, hook) ==
  LET new == Hooks(slice) \o <<hook>>
      cap == IF slice.len = 0 THEN 1 ELSE 2 * slice.len
  IN new \o [i \in 1..(cap - Len(new)) |-> "free"]

Appended(slice, hook) ==
  IF slice.len < Cap(slice)
  THEN [slice |-> [slice EXCEPT !.len = @ + 1],
        arrays |-> [arrays EXCEPT ![slice.arr][slice.len + 1] = hook]]
  ELSE [slice |-> [arr |-> Len(arrays) + 1, len |-> slice.len + 1],
        arrays |-> Append(arrays, Grown(slice, hook))]

\* The application registers a hook of its own on the endpoint.
Register ==
  /\ eHooks.len < MaxHooks
  /\ LET a == Appended(eHooks, "app") IN eHooks' = a.slice /\ arrays' = a.arrays
  /\ UNCHANGED <<xHooks, listeners, channelVars>>

\* Mutant of RegisterEndpoint: the hook of the exchange is registered on the endpoint.
RegisterOnEndpoint(x) ==
  /\ xHooks[x] = NilSlice
  /\ LET a == Appended(eHooks, x)
     IN eHooks' = a.slice /\ xHooks' = [xHooks EXCEPT ![x] = a.slice] /\ arrays' = a.arrays
  /\ UNCHANGED <<listeners, channelVars>>

\* newExchange: the hooks of the endpoint, and unregisterChannel of the exchange.
RegisterEndpoint(x) ==
  /\ xHooks[x] = NilSlice
  /\ LET a == Appended(eHooks, x)
     IN xHooks' = [xHooks EXCEPT ![x] = a.slice] /\ arrays' = a.arrays
  /\ UNCHANGED <<eHooks, listeners, channelVars>>

-----------------------------------------------------------------------------
(* Numbers                                                                 *)

\* Mutant of GetNextChannelID: the low side does not look for an even number.
GetNextChannelIDOdd(id, high) ==
  LET one == IF id = 0 THEN 1 ELSE id IN IF high /\ one % 2 = 0 THEN one + 1 ELSE one

\* Zero is not valid; the high side takes odd numbers, the low side even ones.
GetNextChannelID(id, high) ==
  LET one == IF id = 0 THEN 1 ELSE id
  IN IF high = (one % 2 = 1) THEN one ELSE (one + 1) % IdLimit

IsHigh(x, side) == (x \in High) = (side = "local")

Number(x, side) == GetNextChannelID(nextId[x][side], IsHigh(x, side))

Took(x, side, id) == nextId' = [nextId EXCEPT ![x][side] = (id + 2) % IdLimit]

-----------------------------------------------------------------------------
(* Channels                                                                *)

\* A channel copies the hooks of its exchange.
NewChannel(x, id, side) ==
  Append(opened, [x |-> x, id |-> id, by |-> side, hooks |-> xHooks[x]])

\* channelSet.Add leaves a channel that is there; Open does not look at its result.
OpenChannel(x) ==
  LET id == Number(x, "local")
      c == Len(opened) + 1
  IN /\ xHooks[x] # NilSlice /\ c <= MaxOpened
     /\ Took(x, "local", id)
     /\ opened' = NewChannel(x, id, "local")
     /\ openChannels' = openChannels \cup {c}
     /\ numbered' = [numbered EXCEPT ![x][id] = IF @ = 0 THEN c ELSE @]
     /\ outlived' = (outlived \/ numbered[x][id] # 0)
     /\ UNCHANGED <<hookVars, listeners, stopped, mixed>>

\* The set of an exchange is empty and inherits the listeners of the endpoint's.
GetListener(typ) == typ \in listeners

\* The first packet of a channel of the peer's: a new channel for its number if there
\* is a listener, or one more packet of the channel that has the number.
PeerOpens(x, typ) ==
  LET id == Number(x, "peer")
      there == numbered[x][id]
      c == Len(opened) + 1
  IN /\ xHooks[x] # NilSlice /\ c <= MaxOpened
     /\ Took(x, "peer", id)
     /\ \/ /\ there # 0
           /\ mixed' = (mixed \/ opened[there].by = "local")
           /\ outlived' = (outlived \/ opened[there].by = "peer")
           /\ UNCHANGED <<opened, openChannels, numbered>>
        \/ /\ there = 0 /\ ~GetListener(typ)
           /\ UNCHANGED <<opened, openChannels, numbered, mixed, outlived>>
        \/ /\ there = 0 /\ GetListener(typ)
           /\ opened' = NewChannel(x, id, "peer")
           /\ openChannels' = openChannels \cup {c}
           /\ numbered' = [numbered EXCEPT ![x][id] = c]
           /\ UNCHANGED <<mixed, outlived>>
     /\ UNCHANGED <<hookVars, listeners, stopped>>

\* Listen panics when the type is taken; Close of a listener removes it.
Listen(typ) ==
  /\ typ \notin listeners
  /\ listeners' = listeners \cup {typ}
  /\ UNCHANGED <<hookVars, channelVars>>

RemoveListener(typ) ==
  /\ typ \in listeners
  /\ listeners' = listeners \ {typ}
  /\ UNCHANGED <<hookVars, channelVars>>

\* unregisterChannel, of the exchange whose hook it is: whatever has the number.
Unregistered(cs, hooks, id) ==
  [x \in OpenExchanges |-> IF x \in Range(hooks) THEN [cs[x] EXCEPT ![id] = 0] ELSE cs[x]]

\* trigger: the hooks in turn, until one of the application's stops it.
Trigger(c, n) ==
  LET hooks == SubSeq(Hooks(opened[c].hooks), 1, n)
  IN numbered' = Unregistered(numbered, hooks, opened[c].id)

CloseChannel(c) ==
  LET hooks == Hooks(opened[c].hooks)
  IN /\ c \in openChannels
     /\ openChannels' = openChannels \ {c}
     /\ \/ Trigger(c, Len(hooks)) /\ UNCHANGED stopped
        \/ \E n \in 1..Len(hooks) :
             hooks[n] = "app" /\ Trigger(c, n) /\ stopped' = stopped \cup {c}
     /\ UNCHANGED <<hookVars, listeners, nextId, opened, outlived, mixed>>

-----------------------------------------------------------------------------
OpeningInit ==
  /\ arrays = <<>> /\ eHooks = NilSlice /\ xHooks = [x \in OpenExchanges |-> NilSlice]
  /\ listeners = {}
  /\ nextId = [x \in OpenExchanges |-> [s \in Sides |-> 0]]
  /\ numbered = [x \in OpenExchanges |-> [id \in 0..(IdLimit - 1) |-> 0]]
  /\ opened = <<>> /\ openChannels = {} /\ stopped = {} /\ outlived = FALSE /\ mixed = FALSE

OpeningNext ==
  \/ Register
  \/ \E x \in OpenExchanges : \/ RegisterEndpoint(x) \/ OpenChannel(x)
                              \/ \E typ \in Types : PeerOpens(x, typ)
  \/ \E typ \in Types : Listen(typ) \/ RemoveListener(typ)
  \/ \E c \in openChannels : CloseChannel(c)

OpeningSpec == OpeningInit /\ [][OpeningNext]_openingVars

-----------------------------------------------------------------------------
(* Properties.                                                             *)

\* The two sides never give a channel the same number, and none gives zero, also when
\* the numbers start again (getNextChannelID).
NumbersAreApart ==
  /\ ~mixed
  /\ \A c \in 1..Len(opened) : opened[c].id # 0

\* A channel that is open is the one of its number, and one that is closed is out of the
\* set, of its own exchange alone, unless the application stopped the hooks: as long as
\* no channel has stayed open until its number came round (Open, Register, trigger,
\* unregisterChannel).
SetIsCurrent ==
  ~outlived /\ stopped = {} =>
    \A c \in 1..Len(opened) :
      (numbered[opened[c].x][opened[c].id] = c) <=> (c \in openChannels)

\* The two sides never use the same number, and a channel that closes leaves the set of its
\* own exchange (exchange.go, getNextChannelID, unregisterChannel; hooks.go, trigger).
ChannelsAreNumbered == NumbersAreApart /\ SetIsCurrent
=============================================================================
