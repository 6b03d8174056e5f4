------------------------------- MODULE Gateway -------------------------------
(***************************************************************************)
(* How a NAT gateway is found (go-nat's DiscoverGateway, with goupnp and   *)
(* go-nat-pmp, all vendored).  Two goroutines search by SSDP for UPnP      *)
(* gateways, one for each version of the service, fetch the description of *)
(* every device that answers and ask its services whether they do NAT; one *)
(* goroutine per private network asks its first address by NAT-PMP.  The   *)
(* first to send on its Go channel wins, or ten seconds pass.              *)
(***************************************************************************)
EXTENDS Naturals, Sequences, FiniteSets, SequencesExt

CONSTANTS
  None,
  Devices,     \* [answer, base, tree] of the UPnP devices on the network
  Networks,    \* [addr, net, private]: the addresses of the host's interfaces
  numSends,    \* 3: requests of a search
  MaxResponses,\* bound: responses that a search reads
  nAT_TRIES    \* 9: requests to a NAT-PMP gateway

Searches == {"ig1", "ig2"}

\* What a search looks for, and the services of a device that may be a gateway.
Target(s) == IF s = "ig1" THEN "WANConnectionDevice:1" ELSE "WANConnectionDevice:2"
Types(s) == {"WANIPConnection:1", "WANPPPConnection:1"}
              \cup (IF s = "ig2" THEN {"WANIPConnection:2"} ELSE {})

VARIABLES
  at,          \* each search: "search", "ask", "send", "ended"
  responses,   \* the responses a search has read
  answered,    \* how often each device answered each search
  services,    \* services a search has still to ask
  asked,       \* services it asked, in order
  tries,       \* requests to each potential NAT-PMP gateway; nAT_TRIES when done
  res,         \* the Go channels
  result       \* of DiscoverGateway, or None

vars == <<at, responses, answered, services, asked, tries, res, result>>

-----------------------------------------------------------------------------
(* The descriptions of devices (device.go).                                *)

\* A reference that does not parse leaves an empty URL.
ResolveURL(base, ref) == IF ref = "bad" THEN None ELSE [base |-> base, ref |-> ref]

SetURLBase(srv, base) ==
  [type |-> srv.type, control |-> ResolveURL(base, srv.ref), nat |-> srv.nat]

\* The services of a device and of the devices in it, depth first.
RECURSIVE VisitServices(_, _)
VisitServices(device, base) ==
  [i \in DOMAIN device.services |-> SetURLBase(device.services[i], base)]
    \o FlattenSeq([i \in DOMAIN device.devices |-> VisitServices(device.devices[i], base)])

\* The device at the location of a response, with its own URL base if it has one.
RootServices(response) ==
  LET d == CHOOSE x \in Devices : x.answer.location = response.location
  IN VisitServices(d.tree, IF d.base # None THEN d.base ELSE response.location)

-----------------------------------------------------------------------------
(* The search (httpu.go, ssdp.go, goupnp.go).                              *)

\* A device answers one of the requests; what is no HTTP response is passed over.
Do(s, d) ==
  /\ at[s] = "search" /\ answered[s][d] < numSends /\ Len(responses[s]) < MaxResponses
  /\ answered' = [answered EXCEPT ![s][d] = @ + 1]
  /\ responses' = [responses EXCEPT ![s] = IF d.answer.status = None THEN @ ELSE Append(@, d.answer)]
  /\ UNCHANGED <<at, services, asked, tries, res, result>>

Usn(response) == IF response.usn = "" THEN response.location ELSE response.usn

\* Mutant of SSDPRawSearch: a device that answers every request counts every time.
SSDPRawSearchAll(s) ==
  SelectSeq(responses[s],
    LAMBDA r : r.status = 200 /\ r.st = Target(s) /\ r.location # None)

\* The responses with the target and a location, the first of each USN.
SSDPRawSearch(s) ==
  LET usable == SelectSeq(responses[s],
                  LAMBDA r : r.status = 200 /\ r.st = Target(s) /\ r.location # None)
      First(i) == \A j \in 1..i - 1 : Usn(usable[j]) # Usn(usable[i])
      firsts == SetToSortSeq({i \in DOMAIN usable : First(i)}, <)
  IN [i \in DOMAIN firsts |-> usable[firsts[i]]]

\* The deadline passes: the descriptions are fetched, some in vain.
DiscoverDevices(s) ==
  LET found == SSDPRawSearch(s)
  IN /\ at[s] = "search"
     /\ \E got \in SUBSET DOMAIN found :
          services' = [services EXCEPT ![s] =
            SelectSeq(FlattenSeq([i \in DOMAIN found |->
                        IF i \in got THEN RootServices(found[i]) ELSE <<>>]),
                      LAMBDA srv : srv.type \in Types(s))]
     /\ at' = [at EXCEPT ![s] = "ask"]
     /\ UNCHANGED <<responses, answered, asked, tries, res, result>>

\* The socket fails: the goroutine ends.
SearchFails(s) ==
  /\ at[s] = "search"
  /\ at' = [at EXCEPT ![s] = "ended"]
  /\ UNCHANGED <<responses, answered, services, asked, tries, res, result>>

-----------------------------------------------------------------------------
(* Asking a service (upnp.go, soap.go, the generated GetNATRSIPStatus).    *)

UnmarshalBoolean(s) ==
  CASE s \in {"0", "false", "no"} -> FALSE
    [] s \in {"1", "true", "yes"} -> TRUE
    [] OTHER -> None

\* A status other than 200, a fault, or a text that is no boolean is an error, as is a
\* request without a URL.
PerformAction(srv) ==
  IF srv.control = None \/ srv.nat \in {"fault", "http error"} THEN None
  ELSE UnmarshalBoolean(srv.nat)

GetNATRSIPStatus(srv) == PerformAction(srv) # None /\ PerformAction(srv)

\* The call may fail on its way, too.
Ask(s) ==
  /\ at[s] = "ask"
  /\ \/ /\ services[s] = <<>>
        /\ at' = [at EXCEPT ![s] = "ended"]
        /\ UNCHANGED <<services, asked>>
     \/ /\ services[s] # <<>>
        /\ asked' = [asked EXCEPT ![s] = Append(@, Head(services[s]))]
        /\ \/ /\ GetNATRSIPStatus(Head(services[s]))
              /\ at' = [at EXCEPT ![s] = "send"]
              /\ UNCHANGED services
           \/ /\ services' = [services EXCEPT ![s] = Tail(@)]
              /\ UNCHANGED at
  /\ UNCHANGED <<responses, answered, tries, res, result>>

\* res <- nat, in the visitor, whose return goes on to the next service.  The channel
\* holds one: with nobody to receive the second send waits for ever.
Send(s) ==
  /\ at[s] = "send" /\ Len(res[s]) < 1
  /\ res' = [res EXCEPT ![s] = Append(@, Head(services[s]))]
  /\ services' = [services EXCEPT ![s] = Tail(@)]
  /\ at' = [at EXCEPT ![s] = "ask"]
  /\ UNCHANGED <<responses, answered, asked, tries, result>>

-----------------------------------------------------------------------------
(* NAT-PMP (natpmp.go of go-nat and of go-nat-pmp).                        *)

\* For each private address of the host the first address of its network.
PotentialGateways == {n \in Networks : n.private}

Read(g, reply) ==
  /\ tries[g] < nAT_TRIES
  /\ \/ /\ reply = "timeout"      \* the next request waits twice as long
        /\ tries' = [tries EXCEPT ![g] = @ + 1]
        /\ UNCHANGED res
     \/ /\ reply = "other address"  \* passed over: the request is sent again
        /\ UNCHANGED <<tries, res>>
     \/ /\ reply = "error"          \* the size, version, operation or result code
        /\ tries' = [tries EXCEPT ![g] = nAT_TRIES]
        /\ UNCHANGED res
     \/ /\ reply = "good"
        /\ tries' = [tries EXCEPT ![g] = nAT_TRIES]
        /\ res' = [res EXCEPT !["natpmp"] = Append(@, g.net)]
  /\ UNCHANGED <<at, responses, answered, services, asked, result>>

-----------------------------------------------------------------------------
DiscoverGateway ==
  /\ result = None
  /\ \E k \in DOMAIN res :
       /\ res[k] # <<>>
       /\ result' = [kind |-> k, nat |-> Head(res[k])]
       /\ res' = [res EXCEPT ![k] = Tail(@)]
  /\ UNCHANGED <<at, responses, answered, services, asked, tries>>

Timeout ==
  /\ result = None
  /\ result' = [kind |-> "ErrNoNATFound"]
  /\ UNCHANGED <<at, responses, answered, services, asked, tries, res>>

Init ==
  /\ at = [s \in Searches |-> "search"]
  /\ responses = [s \in Searches |-> <<>>]
  /\ answered = [s \in Searches |-> [d \in Devices |-> 0]]
  /\ services = [s \in Searches |-> <<>>]
  /\ asked = [s \in Searches |-> <<>>]
  /\ tries = [g \in PotentialGateways |-> 0]
  /\ res = [k \in Searches \cup {"natpmp"} |-> <<>>]
  /\ result = None

Next ==
  \/ \E s \in Searches : \/ \E d \in Devices : Do(s, d)
                         \/ DiscoverDevices(s) \/ SearchFails(s) \/ Ask(s) \/ Send(s)
  \/ \E g \in PotentialGateways, r \in {"timeout", "other address", "error", "good"} : Read(g, r)
  \/ DiscoverGateway \/ Timeout

Spec == Init /\ [][Next]_vars

-----------------------------------------------------------------------------
\* The gateway that is used said that it does NAT, is of a type the search is for and is
\* addressed by a URL of the device; a device that answers each of the requests of a
\* search has its services asked once (SSDPRawSearch, DiscoverDevices, Send).
GatewayDoesNAT ==
  /\ result # None /\ result.kind \in Searches =>
       /\ result.nat \in ToSet(asked[result.kind])
       /\ result.nat.type \in Types(result.kind) /\ result.nat.control # None
       /\ \E d \in Devices : /\ d.answer.st = Target(result.kind)
                             /\ result.nat.control.base \in {d.base, d.answer.location}
  /\ \A s \in Searches : Cardinality(ToSet(asked[s])) = Len(asked[s])
=============================================================================
