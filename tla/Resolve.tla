------------------------------- MODULE Resolve -------------------------------
(***************************************************************************)
(* From a URI to an identity (uri): Parse, and Resolve, which asks DNS for *)
(* the SRV records of each protocol in turn and then the web server of the *)
(* host for its well-known file.                                           *)
(*                                                                         *)
(* The four look-ups of one SRV resolution are separate: the owner of the  *)
(* domain may change it between them, and each of them may fail.           *)
(***************************************************************************)
EXTENDS Naturals, Sequences, FiniteSets

CONSTANTS
  None,
  Hashnames,   \* of the endpoints the domain has been used for
  IPs,
  URIs,        \* what users type in
  MaxUpdates   \* bound: changes of the domain

VARIABLES
  srv,      \* of each protocol: the targets of the SRV records
  records,  \* of the domain <hashname>.<domain>: its CNAME, addresses, and whose keys
            \* its TXT records hold (or None)
  web,      \* what the well-known file holds: an identity, or None
  updates,
  resolver, \* the call of Resolve
  named     \* ghost: hashnames that SRV records of the protocol have named

vars == <<srv, records, web, updates, resolver, named>>
domain == <<srv, records, web, updates, named>>

Protos == <<"udp", "tcp", "http">>

-----------------------------------------------------------------------------
(* Parse: a URI without a protocol is a mesh URI; the rest is as it was    *)
(* typed, and the canonical part must be there.                            *)

Typed(u) ==
  [u EXCEPT !.session = IF @ = None THEN None ELSE <<"/", @>>, !.token = IF @ = None THEN None ELSE <<"#", @>>]

TrimPrefix(s) == IF s = None THEN None ELSE s[2]

Parse(t) ==
  IF t.canonical = None THEN None
  ELSE [protocol |-> IF t.protocol = None THEN "mesh" ELSE t.protocol, user |-> t.user,
        canonical |-> t.canonical, session |-> TrimPrefix(t.session), token |-> TrimPrefix(t.token)]

\* URI.String
Printed(u) == Typed([u EXCEPT !.protocol = IF @ = None THEN "mesh" ELSE @])

-----------------------------------------------------------------------------
(* The call                                                                *)

Idle == [at |-> "idle"]
Asks(p) == [at |-> "srv", proto |-> p]
Returned(ident) == [at |-> "returned", ident |-> ident]

\* An error of one way is followed by the next way, and the last error is returned.
NextWay(p) == IF p < Len(Protos) THEN Asks(p + 1) ELSE [at |-> "http"]

\* The canonical part names a host; a .public host is not resolved with DNS.
Resolve(t) ==
  /\ resolver = Idle /\ Parse(t) # None
  /\ resolver' = IF Parse(t).canonical = "public" THEN [at |-> "http"] ELSE Asks(1)
  /\ UNCHANGED domain

Fails ==
  /\ resolver.at \in {"srv", "cname", "ip", "txt"}
  /\ resolver' = NextWay(resolver.proto)
  /\ UNCHANGED domain

\* There must be one record, and its target must be <hashname>.<domain>.
LookupSRV ==
  /\ resolver.at = "srv"
  /\ LET targets == srv[Protos[resolver.proto]]
     IN resolver' = IF Cardinality(targets) = 1 /\ targets \subseteq Hashnames
                    THEN [at |-> "cname", proto |-> resolver.proto, hn |-> CHOOSE h \in targets : TRUE]
                    ELSE NextWay(resolver.proto)
  /\ UNCHANGED domain

LookupCNAME ==
  /\ resolver.at = "cname"
  /\ resolver' = IF records[resolver.hn].cname THEN NextWay(resolver.proto)
                 ELSE [resolver EXCEPT !.at = "ip"]
  /\ UNCHANGED domain

\* Addresses of the protocol's transport; there is none for HTTP.
Addresses(p, ips) == IF Protos[p] = "http" THEN {} ELSE {[net |-> Protos[p], ip |-> ip] : ip \in ips}

LookupIP ==
  /\ resolver.at = "ip"
  /\ LET ips == records[resolver.hn].ips
     IN resolver' = IF ips = {} THEN NextWay(resolver.proto)
                    ELSE [at |-> "txt", proto |-> resolver.proto, hn |-> resolver.hn,
                          addrs |-> Addresses(resolver.proto, ips)]
  /\ UNCHANGED domain

\* Mutant of Confirmed: the keys are taken as they are.
Believed(hn, keys) == TRUE

\* The hashname of the keys is the one that the SRV record names.
Confirmed(hn, keys) == keys = hn

\* No TXT records, no keys, or keys of another hashname are errors.
LookupTXT ==
  /\ resolver.at = "txt"
  /\ LET keys == records[resolver.hn].txt
     IN resolver' = IF keys # None /\ Confirmed(resolver.hn, keys)
                    THEN Returned([hashname |-> keys, addrs |-> resolver.addrs, way |-> Protos[resolver.proto]])
                    ELSE NextWay(resolver.proto)
  /\ UNCHANGED domain

\* The well-known file: a status other than 200, another type of content and text that
\* is not an identity are errors.
ResolveHTTP ==
  /\ resolver.at = "http"
  /\ \/ web # None /\ resolver' = Returned(web)
     \/ resolver' = Returned(None)
  /\ UNCHANGED domain

-----------------------------------------------------------------------------
(* The owner of the domain                                                 *)

Update(newSrv, newRecords, newWeb) ==
  /\ updates < MaxUpdates
  /\ updates' = updates + 1
  /\ srv' = newSrv /\ records' = newRecords /\ web' = newWeb
  /\ named' = [p \in DOMAIN named |-> named[p] \cup newSrv[p]]
  /\ UNCHANGED resolver

PublishSRV(p, targets) == Update([srv EXCEPT ![p] = targets], records, web)

PublishRecord(hn, r) == Update(srv, [records EXCEPT ![hn] = r], web)

\* WellKnown serves the endpoint's own identity.
Serve(hn, ips) ==
  Update(srv, records, [hashname |-> hn, addrs |-> {[net |-> "udp", ip |-> ip] : ip \in ips}, way |-> "web"])

-----------------------------------------------------------------------------

Init ==
  /\ srv = [p \in {"udp", "tcp", "http"} |-> {}] /\ named = srv
  /\ records = [h \in Hashnames |-> [cname |-> FALSE, ips |-> {}, txt |-> None]]
  /\ web = None /\ updates = 0
  /\ resolver = Idle

\* Records that an owner publishes: TXT records may still hold the keys of another.
Record == [cname : BOOLEAN, ips : {{}, IPs}, txt : Hashnames \cup {None}]

Next ==
  \/ \E t \in {Typed(u) : u \in URIs} : Resolve(t)
  \/ Fails \/ LookupSRV \/ LookupCNAME \/ LookupIP \/ LookupTXT \/ ResolveHTTP
  \/ \E p \in {"udp", "tcp", "http"}, targets \in SUBSET Hashnames : PublishSRV(p, targets)
  \/ \E hn \in Hashnames, r \in Record : PublishRecord(hn, r)
  \/ \E hn \in Hashnames : Serve(hn, IPs)

Spec == Init /\ [][Next]_vars

-----------------------------------------------------------------------------
(* Properties.                                                             *)

\* Whatever is published between the look-ups and whichever of them fail, an identity
\* that Resolve finds with DNS is one that an SRV record of that protocol has named, and
\* its addresses are those of that protocol; a URI is read as it was printed (resolveSRV,
\* Resolve, Parse, URI.String).
ResolvedIsNamed ==
  /\ resolver.at = "returned" /\ resolver.ident # None /\ resolver.ident.way # "web"
     => /\ resolver.ident.hashname \in named[resolver.ident.way]
        /\ \A a \in resolver.ident.addrs : a.net = resolver.ident.way
  /\ \A u \in URIs : u.protocol # None /\ u.canonical # None => Parse(Printed(u)) = u
=============================================================================
