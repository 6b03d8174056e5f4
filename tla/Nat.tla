--------------------------------- MODULE Nat ---------------------------------
(***************************************************************************)
(* The NAT transport (transports/nat) and the gateway clients of go-nat    *)
(* (UPnP and NAT-PMP) that it drives.                                      *)
(*                                                                         *)
(* One goroutine, runMapper, looks for a gateway and keeps the port        *)
(* mappings of the sub-transport's addresses.  Every call to the gateway   *)
(* is a step of its own: the host may change its address, and the gateway  *)
(* its own, forget its table or stop answering, between any two.  Addrs    *)
(* reads the mapping at any time.                                          *)
(***************************************************************************)
EXTENDS Naturals

CONSTANTS
  Nil,          \* nil
  Sockets,      \* [proto, port] of the sub-transport
  LanIPs,       \* addresses that the host may have on the gateway's network
  WanIPs,       \* addresses that the gateway may have
  ExtPorts,     \* external ports that are tried
  GatewayKinds, \* of gateways: "upnp", "natpmp"
  GrantsAsked,  \* a NAT-PMP gateway maps the port that it is asked for
  MaxEvents     \* bound: changes of the host and of the gateway

Elsewhere == "elsewhere"   \* the host's address on another network

VARIABLES
  lan,         \* the host's address on the gateway's network, or Nil
  wan,         \* the gateway's external address
  table,       \* its table: [proto, ext, ip, port]
  aging,       \* entries that no refresh has renewed
  events,
  mapper,      \* where runMapper is
  nat,         \* t.nat: [kind, ports], or Nil
  mapping,     \* t.mapping: the external address of each internal one
  knownAddrs,  \* of the discover mode
  work         \* the copy that updateMappings and refreshMapping build, and since when

natVars == <<lan, wan, table, aging, events, mapper, nat, mapping, knownAddrs, work>>
networkVars == <<lan, wan, events>>

\* t.t.Addrs(); asNATableAddr and InternalAddr have dropped the others.
NATableAddrs ==
  {[proto |-> s.proto, ip |-> i, port |-> s.port] : s \in Sockets, i \in {lan, Elsewhere} \ {Nil}}

NoMapping == [a \in {} |-> Nil]
Without(f, a) == [x \in DOMAIN f \ {a} |-> f[x]]
With(f, a, v) == [x \in DOMAIN f \cup {a} |-> IF x = a THEN v ELSE f[x]]

-----------------------------------------------------------------------------
(* The requests to a gateway.  One that is answered was carried out; one   *)
(* whose answer is lost may have been.  Nil stands for an error.           *)

HoldsPort(e, a, ports) == e.proto = a.proto /\ e.ext \in ports

\* The gateway maps the ports to the host.  No two hosts ask for one port.
MapsPorts(a, ports) ==
  /\ table' = {e \in table : ~HoldsPort(e, a, ports)}
                \cup {[proto |-> a.proto, ext |-> x, ip |-> lan, port |-> a.port] : x \in ports}
  /\ aging' = {e \in aging : ~HoldsPort(e, a, ports)}

\* goupnp: the requests for the ports in lost are not answered, the one for ext is.
WANAddPortMapping(a, lost, ext) == MapsPorts(a, lost \cup ({ext} \ {Nil}))

WANDeletePortMapping(a, ext) ==
  /\ table' \in {table, {e \in table : ~HoldsPort(e, a, {ext})}}
  /\ aging' = aging \cap table'

\* The text of the answer need not be an address.
WANGetExternalIPAddress == {wan, "", Nil}

\* go-nat-pmp: the gateway may grant another port than the one that it is asked for.
PMPAddPortMapping(a, lost, ext) ==
  \E granted \in IF GrantsAsked THEN {ext} ELSE ExtPorts :
    MapsPorts(a, lost \cup (IF ext = Nil THEN {} ELSE {granted}))

PMPGetExternalAddress == {wan, Nil}

-----------------------------------------------------------------------------
(* go-nat: the two kinds of gateways                                       *)

LastPort(n, p) == IF p \in DOMAIN n.ports THEN n.ports[p] ELSE 0

\* A port that the gateway does not use, as randomPort nearly always is.
RandomPort(a) == {x \in ExtPorts : ~ \E e \in table : HoldsPort(e, a, {x})}

\* The port of last time is tried first, then three at random.
TriedPorts(a) == RandomPort(a) \cup ({LastPort(nat, a.port)} \ {0})

RememberPort(a, ext) ==
  nat' = IF ext = Nil THEN nat ELSE [nat EXCEPT !.ports = With(@, a.port, ext)]

\* A host without an address on the gateway's network gives port 0, and no error.
AddUPnP(a, ext) ==
  \/ /\ lan # Nil /\ ext \in TriedPorts(a) \cup {Nil}
     /\ \E lost \in SUBSET TriedPorts(a) : WANAddPortMapping(a, lost, ext)
     /\ RememberPort(a, ext)
  \/ /\ lan = Nil /\ ext = 0
     /\ UNCHANGED <<table, aging, nat>>

\* The result is the port that was asked for, whatever the gateway has granted.
AddPMP(a, ext) ==
  /\ ext \in (IF lan = Nil THEN {} ELSE TriedPorts(a)) \cup {Nil}
  /\ \E lost \in SUBSET IF lan = Nil THEN {} ELSE TriedPorts(a) : PMPAddPortMapping(a, lost, ext)
  /\ RememberPort(a, ext)

AddPortMapping(a, ext) == IF nat.kind = "upnp" THEN AddUPnP(a, ext) ELSE AddPMP(a, ext)

\* ports is kept by internal port alone.
ForgetPort(a) == nat' = [nat EXCEPT !.ports = Without(@, a.port)]

DeleteUPnP(a) ==
  LET ext == LastPort(nat, a.port)
  IN /\ ForgetPort(a)
     /\ \/ ext # 0 /\ WANDeletePortMapping(a, ext)
        \/ ext = 0 /\ UNCHANGED <<table, aging>>

\* The gateway is not told.
DeletePMP(a) == ForgetPort(a) /\ UNCHANGED <<table, aging>>

DeletePortMapping(a) == IF nat.kind = "upnp" THEN DeleteUPnP(a) ELSE DeletePMP(a)

ExternalUPnP == {IF t = "" THEN Nil ELSE t : t \in WANGetExternalIPAddress}
ExternalPMP == PMPGetExternalAddress
GetExternalAddress == IF nat.kind = "upnp" THEN ExternalUPnP ELSE ExternalPMP

\* The address of the host whose network has the gateway in it: for UPnP the host of the
\* device's URL, which may not resolve, for NAT-PMP the address that answered.
InternalUPnP == {lan, Nil}
InternalPMP == {lan, Nil}
GetInternalAddress == IF nat.kind = "upnp" THEN InternalUPnP ELSE InternalPMP

-----------------------------------------------------------------------------
(* runDiscoverMode                                                         *)

\* DiscoverGateway and GetDeviceAddress: the first of the three searches to answer,
\* or none within ten seconds.
DiscoverNAT ==
  \/ \E k \in GatewayKinds : nat' = [kind |-> k, ports |-> NoMapping] /\ mapper' = "mapping"
  \/ UNCHANGED <<nat, mapper>>

\* updateKnownAddresses, and a search when they have changed.
UpdateKnown ==
  /\ mapper = "discover" /\ knownAddrs # NATableAddrs
  /\ DiscoverNAT
  /\ knownAddrs' = IF mapper' = "mapping" THEN {} ELSE NATableAddrs
  /\ UNCHANGED <<networkVars, table, aging, mapping, work>>

DiscoverTick ==
  /\ mapper = "discover"
  /\ DiscoverNAT /\ mapper' = "mapping" /\ knownAddrs' = {}
  /\ UNCHANGED <<networkVars, table, aging, mapping, work>>

-----------------------------------------------------------------------------
(* runMappingMode: updateMappings and refreshMapping                       *)

\* Either begins with a copy whose entries are all stale.
BeginCopy(what) ==
  /\ mapper = "mapping"
  /\ mapper' = what
  /\ work' = [map |-> mapping, stale |-> DOMAIN mapping, todo |-> {}, wan |-> Nil, lan |-> Nil,
              since |-> events]

UpdateTick ==
  BeginCopy("update") /\ UNCHANGED <<networkVars, table, aging, nat, mapping, knownAddrs>>

\* Fifty minutes have passed, of the sixty that a mapping is leased for: what this
\* refresh does not renew ends before the next one.
RefreshTick ==
  /\ BeginCopy("refresh")
  /\ aging' = table
  /\ UNCHANGED <<networkVars, table, nat, mapping, knownAddrs>>

\* GetExternalAddress and GetInternalAddress, then the list that the loop goes over.
LookupGateway(external, internal) ==
  /\ mapper \in {"update", "refresh"} /\ Nil \notin {external, internal}
  /\ work' = [work EXCEPT !.wan = external, !.lan = internal,
                          !.todo = IF mapper = "update" THEN NATableAddrs ELSE DOMAIN work.map]
  /\ mapper' = IF mapper = "update" THEN "add" ELSE "renew"
  /\ UNCHANGED <<networkVars, table, aging, nat, mapping, knownAddrs>>

\* Either fails: the gateway is given up, and runMappingMode empties the mapping.
LookupFails(external, internal) ==
  /\ mapper \in {"update", "refresh"} /\ Nil \in {external, internal}
  /\ nat' = Nil /\ mapping' = NoMapping /\ mapper' = "discover"
  /\ UNCHANGED <<networkVars, table, aging, knownAddrs, work>>

RestOf(a) == work.todo \ {a}
ExternalAddr(ext) == [ip |-> work.wan, ext |-> ext]

\* One address of the loop of updateMappings.
AddExisting(a) ==
  /\ mapper = "add" /\ a \in work.todo
  /\ a.ip = work.lan => a \in DOMAIN mapping
  /\ work' = [work EXCEPT !.todo = RestOf(a), !.stale = IF a.ip = work.lan THEN @ \ {a} ELSE @]
  /\ UNCHANGED <<networkVars, table, aging, mapper, nat, mapping, knownAddrs>>

AddNew(a) ==
  /\ mapper = "add" /\ a \in work.todo /\ a.ip = work.lan /\ a \notin DOMAIN mapping
  /\ \E ext \in ExtPorts \cup {0, Nil} :
       /\ AddPortMapping(a, ext)
       /\ work' = [work EXCEPT !.todo = RestOf(a),
                               !.map = IF ext = Nil THEN @ ELSE With(@, a, ExternalAddr(ext))]
  /\ UNCHANGED <<networkVars, mapper, mapping, knownAddrs>>

\* Then the stale ones go, one after the other.
DeleteStale(a) ==
  /\ mapper = "add" /\ work.todo = {} /\ a \in work.stale
  /\ DeletePortMapping(a)
  /\ work' = [work EXCEPT !.map = Without(@, a), !.stale = @ \ {a}]
  /\ UNCHANGED <<networkVars, mapper, mapping, knownAddrs>>

\* One entry of the loop of refreshMapping, mapped again.  The copy has the entries of
\* t.mapping themselves, so that Addrs sees the new external address at once.
Renewed(a, ext) ==
  /\ a.ip = work.lan /\ ext # Nil /\ AddPortMapping(a, ext)
  /\ work' = [work EXCEPT !.todo = RestOf(a), !.map = With(@, a, ExternalAddr(ext))]
  /\ mapping' = [mapping EXCEPT ![a] = ExternalAddr(ext)]

\* The host's address has changed, or the gateway does not answer.
Unrenewed(a) ==
  /\ UNCHANGED mapping
  /\ \/ a.ip # work.lan /\ UNCHANGED <<table, aging, nat>>
     \/ a.ip = work.lan /\ AddPortMapping(a, Nil)

\* Mutant of RenewMapping: an address that cannot be mapped any more is kept.
RenewKeepsStale(a) ==
  /\ mapper = "renew" /\ a \in work.todo
  /\ \/ \E ext \in ExtPorts \cup {0} : Renewed(a, ext)
     \/ Unrenewed(a) /\ work' = [work EXCEPT !.todo = RestOf(a)]
  /\ UNCHANGED <<networkVars, mapper, knownAddrs>>

RenewMapping(a) ==
  /\ mapper = "renew" /\ a \in work.todo
  /\ \/ \E ext \in ExtPorts \cup {0} : Renewed(a, ext)
     \/ Unrenewed(a) /\ work' = [work EXCEPT !.todo = RestOf(a), !.map = Without(@, a)]
  /\ UNCHANGED <<networkVars, mapper, knownAddrs>>

\* t.mapping = mapping, under the lock.
PublishMapping ==
  /\ \/ mapper = "add" /\ work.todo = {} /\ work.stale = {}
     \/ mapper = "renew" /\ work.todo = {}
  /\ mapping' = work.map /\ mapper' = "mapping"
  /\ UNCHANGED <<networkVars, table, aging, nat, knownAddrs, work>>

\* t.done is closed; it is read between two ticks.
CloseMapper ==
  /\ mapper \in {"discover", "mapping"}
  /\ mapping' = IF mapper = "mapping" THEN NoMapping ELSE mapping
  /\ mapper' = "closed"
  /\ UNCHANGED <<networkVars, table, aging, nat, knownAddrs, work>>

-----------------------------------------------------------------------------
(* The host and the gateway                                                *)

NetworkEvent == events < MaxEvents /\ events' = events + 1
mapperVars == <<mapper, nat, mapping, knownAddrs, work>>

HostMoves ==
  /\ NetworkEvent
  /\ \E i \in (LanIPs \cup {Nil}) \ {lan} : lan' = i
  /\ UNCHANGED <<wan, table, aging, mapperVars>>

GatewayMoves ==
  /\ NetworkEvent
  /\ \E i \in WanIPs \ {wan} : wan' = i
  /\ UNCHANGED <<lan, table, aging, mapperVars>>

GatewayRestarts ==
  /\ NetworkEvent
  /\ table' = {} /\ aging' = {}
  /\ UNCHANGED <<lan, wan, mapperVars>>

\* The lease of entries that the last refresh did not renew.
LeasesExpire ==
  /\ mapper = "mapping" /\ aging # {}
  /\ table' = table \ aging /\ aging' = {}
  /\ UNCHANGED <<networkVars, mapperVars>>

-----------------------------------------------------------------------------

NatInit ==
  /\ lan \in LanIPs /\ wan \in WanIPs
  /\ table = {} /\ aging = {} /\ events = 0
  /\ mapper = "discover" /\ nat = Nil /\ mapping = NoMapping /\ knownAddrs = {}
  /\ work = [map |-> NoMapping, stale |-> {}, todo |-> {}, wan |-> Nil, lan |-> Nil, since |-> 0]

MapperStep ==
  \/ UpdateKnown \/ DiscoverTick \/ UpdateTick \/ RefreshTick \/ PublishMapping \/ CloseMapper
  \/ /\ mapper \in {"update", "refresh"}
     /\ \E external \in GetExternalAddress, internal \in GetInternalAddress :
          LookupGateway(external, internal) \/ LookupFails(external, internal)
  \/ \E a \in DOMAIN work.map \cup work.todo \cup work.stale :
       AddExisting(a) \/ AddNew(a) \/ DeleteStale(a) \/ RenewMapping(a)

NatNext == MapperStep \/ HostMoves \/ GatewayMoves \/ GatewayRestarts \/ LeasesExpire

NatSpec == NatInit /\ [][NatNext]_natVars

-----------------------------------------------------------------------------
(* Properties.                                                             *)

\* The gateway sends what arrives at the external address to the internal one.
Forwards(a, x) == [proto |-> a.proto, ext |-> x.ext, ip |-> a.ip, port |-> a.port] \in table

\* A refresh makes good whatever has become of the gateway's table: every external
\* address that it publishes leads to its internal one, unless the host or the
\* gateway changed while it ran (refreshMapping).
RefreshRestores ==
  [][mapper = "renew" /\ mapper' = "mapping" /\ work.since = events
     => \A a \in DOMAIN mapping' : Forwards(a, mapping'[a])]_natVars
=============================================================================
