----------------------------- MODULE CallRouting -----------------------------
(***************************************************************************)
(* The way of one call through the processes of a host: xot-server or      *)
(* tun-gateway takes the CALL_REQ and routes it, xot-gateway routes it     *)
(* again, adds the facilities configured for the address, resolves the     *)
(* destination and dials it.  Each process has its own DNS cache.  A call  *)
(* dialled to this very host comes back to xot-server.                     *)
(*                                                                         *)
(* External: the DNS, which may change and may fail to answer, and the     *)
(* hosts dialled.  The configuration stays the same (RouteSync is about    *)
(* how it changes).                                                        *)
(***************************************************************************)
EXTENDS X25Codec, Routing

CONSTANTS Servers,        \* "servers" of the configuration
          Destinations,   \* "destinations": facilities for some addresses
          Calls,          \* what clients ask for
          Answers,        \* what the DNS may say, as sequences of hosts
          MaxChanges,     \* bound: how often the DNS changes
          MaxHops         \* bound: how often a call is dialled to this host

ASSUME ServersAssumption == Servers \in Seq(ServerEntry)
ASSUME DestinationsAssumption ==
    \A addr \in DOMAIN Destinations :
        \E codes \in SUBSET Octets : Destinations[addr] \in [codes -> Seq(Octets)]
\* The length of an address fills a half-octet.
ASSUME CallsAssumption ==
    \A c \in Calls :
        /\ c \in [called : Seq(Digits), calling : Seq(Digits),
                  facs : Seq([code : Octets, val : Seq(Octets)]), cud : Seq(Octets),
                  gfi : Digits, lci : 0 .. Nibble * Octet - 1]
        /\ Len(c.called) < Nibble /\ Len(c.calling) < Nibble
ASSUME AnswersAssumption == Answers \subseteq Seq(STRING)
ASSUME BoundAssumption == MaxChanges \in Nat /\ MaxHops \in Nat

VARIABLES call,     \* what the client asked for
          whole,    \* whether its packet came complete
          pos,      \* how far the call has come
          data,     \* the CALL_REQ as it is now
          srv,      \* xot-gateway: the server chosen
          seen,     \* history: the addresses GetServer there has looked at
          blind,    \* history: which of xot-gateway and the relay before it did
                    \*   not recognise an address of this host in GetServer
          ips,      \* xot-gateway: the addresses to dial
          tried,    \* how many of them have been dialled
          dest,     \* the host the call was sent to
          hops,     \* how often it was dialled to this host
          zone,     \* what the DNS says of the call's name
          changes,  \* how often that has changed
          cache     \* dnsCache of each process, for the call's name

vars == <<call, whole, pos, data, srv, seen, blind, ips, tried, dest, hops, zone, changes,
          cache>>

Process == {"xot-server", "tun-gateway", "xot-gateway"}
Ended == {"ignored", "cleared", "delivered", "sent"}
Config == ValidServers(Servers)

\* buildCallRequest of x25_ping: the packet a client sends.
FacilitiesAsked(c) == FlattenSeq([i \in DOMAIN c.facs |->
                                     EncodeFacility(c.facs[i].code, c.facs[i].val)])
BuildCallRequest(c) ==
    Serialize([GFI |-> c.gfi, LCI |-> c.lci, Type |-> PktTypeCallRequest,
               Payload |-> CallPayload(c.called, c.calling, FacilitiesAsked(c), c.cud)])

\* What a client asks for is well-formed (x25_ping sends a fixed field): the
\* values have the length of their class, and all fits in the field.
ASSUME FacilitiesAssumption ==
    \A c \in Calls :
        /\ \A i \in DOMAIN c.facs :
              Class(c.facs[i].code) # 3 => Len(c.facs[i].val) = Class(c.facs[i].code) + 1
        /\ Len(FacilitiesAsked(c)) < Octet

\* A call comes from the network, perhaps cut short, or from the kernel.
Init ==
    /\ call \in Calls
    /\ \/ pos \in {"server", "tun"} /\ data = BuildCallRequest(call) /\ whole = TRUE
       \/ /\ pos = "server" /\ whole = FALSE
          /\ \E n \in 0 .. Len(BuildCallRequest(call)) - 1 :
                data = SubSeq(BuildCallRequest(call), 1, n)
    /\ srv = 0 /\ seen = <<>> /\ blind = {} /\ ips = <<>> /\ tried = 0 /\ dest = NoIP /\ hops = 0
    /\ zone \in Answers /\ changes = 0
    /\ cache \in [Process -> {<<>>, zone}]

-----------------------------------------------------------------------------
Request == ParseCallRequest(ParseX25(data).Payload)

\* What GetServer(called, defaultLocal) returns in process p.
Routes(p, defaultLocal) ==
    LET best == Best(Config, Request.called)
    IN  IF best = 0
        THEN {[srv |-> 0, local |-> defaultLocal, ips |-> <<>>, blind |-> FALSE,
               cached |-> cache[p]]}
        ELSE UNION {{[srv |-> best, local |-> Local(r.ips, defaultLocal, b), ips |-> r.ips,
                      blind |-> b, cached |-> r.cached] : b \in Blindness(r.ips)} :
                      r \in Resolutions(Config[best], Request.called, cache[p], zone)}

RouteUnchanged == UNCHANGED <<call, whole, ips, tried, dest, hops, zone, changes>>

\* What both relays do with a packet before they route it.
Refused(p) ==
    /\ pos = p
    /\ \/ Len(data) < 3 /\ pos' = "ignored"
       \/ /\ Len(data) >= 3
          /\ ~ValidSize(data) \/ ~Request.ok
          /\ pos' = "cleared"
    /\ UNCHANGED <<data, srv, seen, blind, cache>>
    /\ RouteUnchanged
Accepted(p) == pos = p /\ Len(data) >= 3 /\ ValidSize(data) /\ Request.ok

\* xot-server: a local destination goes to tun-gateway, a known one to
\* xot-gateway.  The dial of the other process may fail.
ServerStep(defaultLocal) ==
    /\ Accepted("server")
    /\ \E r \in Routes("xot-server", defaultLocal) :
          /\ \/ r.local /\ pos' = "delivered"
             \/ ~r.local /\ r.srv # 0 /\ pos' = "gateway"
             \/ pos' = "cleared"
          /\ blind' = IF r.blind THEN {"relay"} ELSE {}
          /\ cache' = [cache EXCEPT !["xot-server"] = r.cached]
    /\ UNCHANGED <<data, srv, seen>>
    /\ RouteUnchanged

\* Mutant: a server that cannot be resolved is taken for a remote one.
ServerRoutesOn == ServerStep(FALSE)

\* What is unknown is local.
ServerRoutes == ServerStep(TRUE)

\* tun-gateway, for a call of the kernel: there is no session for it yet, so
\* one that is not intercepted is cleared.
TunRoutes ==
    /\ pos = "tun"
    /\ \E r \in Routes("tun-gateway", TRUE) :
          /\ \/ /\ ~r.local /\ r.srv # 0
                /\ pos' = "gateway"
                /\ data' = Serialize(ParseX25(data))
             \/ pos' = "cleared" /\ UNCHANGED data
          /\ blind' = IF r.blind THEN {"relay"} ELSE {}
          /\ cache' = [cache EXCEPT !["tun-gateway"] = r.cached]
    /\ UNCHANGED <<srv, seen>>
    /\ RouteUnchanged

\* xot-gateway: local and unknown destinations are refused; a server that
\* cannot be resolved at this moment is not.
GatewayRoutes ==
    /\ Accepted("gateway")
    /\ \E r \in Routes("xot-gateway", FALSE) :
          /\ pos' = IF r.srv = 0 \/ r.local THEN "cleared" ELSE "inject"
          /\ srv' = r.srv
          /\ seen' = r.ips
          /\ blind' = (blind \ {"gateway"}) \union (IF r.blind THEN {"gateway"} ELSE {})
          /\ cache' = [cache EXCEPT !["xot-gateway"] = r.cached]
    /\ UNCHANGED data
    /\ RouteUnchanged

\* GetDestination: the facilities configured for an address.
Configured(addr) == IF addr \in DOMAIN Destinations
                    THEN ValidFacilities(Destinations[addr]) ELSE <<>>

\* xot-gateway adds the facilities configured for the address called.
Inject ==
    /\ pos = "inject"
    /\ pos' = "resolve"
    /\ LET pkt == ParseX25(data)
           new == Configured(Request.called)
       IN  IF DOMAIN new = {} THEN UNCHANGED data
           ELSE \E p \in InjectFacilities(pkt.Payload, new) :
                   data' = Serialize([pkt EXCEPT !.Payload = p])
    /\ UNCHANGED <<srv, seen, blind, cache>>
    /\ RouteUnchanged

\* xot-gateway resolves the destination, a second time.
Resolve ==
    /\ pos = "resolve"
    /\ \E r \in Resolutions(Config[srv], Request.called, cache["xot-gateway"], zone) :
          /\ pos' = IF r.ips = <<>> THEN "cleared" ELSE "dial"
          /\ ips' = r.ips
          /\ cache' = [cache EXCEPT !["xot-gateway"] = r.cached]
    /\ tried' = 0
    /\ UNCHANGED <<call, whole, data, srv, seen, blind, dest, hops, zone, changes>>

\* xot-gateway dials the next address and sends the call, or gives up.
Dial ==
    /\ pos = "dial"
    /\ IF tried = Len(ips)
       THEN /\ pos' = "cleared"
            /\ UNCHANGED <<tried, dest, hops>>
       ELSE LET host == DialAddr(Config[srv], ips[tried + 1])
            IN  /\ tried' = tried + 1
                /\ \/ UNCHANGED <<pos, dest, hops>>
                   \/ /\ host \in Own /\ hops < MaxHops
                      /\ pos' = "server"
                      /\ hops' = hops + 1
                      /\ UNCHANGED dest
                   \/ /\ host \notin Own
                      /\ pos' = "sent"
                      /\ dest' = host
                      /\ UNCHANGED hops
    /\ UNCHANGED <<call, whole, data, srv, seen, blind, ips, zone, changes, cache>>

\* External: the DNS gets another answer for the name.
ZoneChanges ==
    /\ pos \notin Ended /\ changes < MaxChanges
    /\ zone' \in Answers \ {zone}
    /\ changes' = changes + 1
    /\ UNCHANGED <<call, whole, pos, data, srv, seen, blind, ips, tried, dest, hops, cache>>

\* The 60 seconds of a cache entry are over.
Expire(p) ==
    /\ pos \notin Ended /\ cache[p] # <<>>
    /\ cache' = [cache EXCEPT ![p] = <<>>]
    /\ UNCHANGED <<data, srv, seen, blind, pos>>
    /\ RouteUnchanged

Next ==
    \/ Refused("server") \/ Refused("gateway")
    \/ ServerRoutes \/ TunRoutes \/ GatewayRoutes
    \/ Inject \/ Resolve \/ Dial
    \/ ZoneChanges \/ \E p \in Process : Expire(p)

Spec == Init /\ [][Next]_vars

-----------------------------------------------------------------------------
(***************************************************************************)
(* Type invariant.  A packet consists of octets, whatever InjectFacilities *)
(* has put in its length fields.                                           *)
(***************************************************************************)
TypeOK ==
    /\ call \in Calls /\ whole \in BOOLEAN
    /\ pos \in {"server", "tun", "gateway", "inject", "resolve", "dial"} \union Ended
    /\ data \in Seq(Octets)
    /\ srv \in 0 .. Len(Config)
    /\ seen \in Answers \union {<<>>} \union {<<s.ip>> : s \in Range(Config)}
    /\ ips \in Answers \union {<<>>} \union {<<s.ip>> : s \in Range(Config)}
    /\ blind \subseteq {"relay", "gateway"}
    /\ tried \in 0 .. Len(ips)
    /\ hops \in 0 .. MaxHops /\ changes \in 0 .. MaxChanges
    /\ zone \in Answers /\ cache \in [Process -> Answers \union {<<>>}]

(***************************************************************************)
(* A call that arrives somewhere carries the addresses, the logical        *)
(* channel and the format identifier the client gave it, also when they    *)
(* were decoded and packed again by InjectFacilities, with addresses that  *)
(* end within an octet, and when the packet came in cut short behind the   *)
(* addresses.                                                              *)
(***************************************************************************)
AddressesSurvive ==
    pos \in {"delivered", "sent"} =>
        LET pkt == ParseX25(data)
        IN  /\ pkt.GFI = call.gfi /\ pkt.LCI = call.lci /\ pkt.Type = PktTypeCallRequest
            /\ Request.ok
            /\ Request.called = call.called /\ Request.calling = call.calling

\* What the facilities should be, straight from the call and the configuration.
LastValues(facs) ==
    [c \in {f.code : f \in Range(facs)} |->
        facs[CHOOSE i \in DOMAIN facs :
                /\ facs[i].code = c
                /\ \A j \in DOMAIN facs : facs[j].code = c => j <= i].val]
AskedFor == LastValues(call.facs)
WantedFor == Over(Configured(call.called), AskedFor)
FieldSize(facs) ==
    MapThenSumSet(LAMBDA c : 1 + Len(facs[c]) + IF Class(c) = 3 THEN 1 ELSE 0, DOMAIN facs)

(***************************************************************************)
(* A complete CALL_REQ leaves xot-gateway with its user data and with one  *)
(* value for each facility: the configured one, else the last the caller   *)
(* gave.  Calls that xot-server hands to tun-gateway have only the         *)
(* caller's.  InjectFacilities promises it as long as the facilities fit   *)
(* in the field's length octet; it does not notice when they do not.       *)
(***************************************************************************)
FacilitiesArrive ==
    /\ whole /\ (pos = "sent" \/ (pos = "delivered" /\ hops > 0)) /\ FieldSize(WantedFor) < Octet
          => /\ FacilityMap(Request.facilities) = WantedFor
             /\ Request.userData = call.cud
    /\ whole /\ pos = "delivered" /\ hops = 0
          => /\ FacilityMap(Request.facilities) = AskedFor
             /\ Request.userData = call.cud

(***************************************************************************)
(* A call is sent to a host of the usable, well-formed server entry with   *)
(* the longest prefix of the address called, of entries with equal         *)
(* prefixes the first: malformed entries between them do not matter, nor   *)
(* does how often the call was routed and its packet decoded before.       *)
(***************************************************************************)
SentWhereRouted ==
    pos = "sent" =>
        \E i \in DOMAIN Servers :
            LET s == Servers[i]
                candidate(j) == Usable(Servers[j]) /\ Matches(Servers[j], call.called)
            IN  /\ candidate(i)
                /\ \A j \in DOMAIN Servers : candidate(j) =>
                      \/ Servers[j].plen < s.plen
                      \/ Servers[j].plen = s.plen /\ i <= j
                /\ \/ s.via # NoIP /\ dest = s.via
                   \/ s.via = NoIP /\ s.ip # NoIP /\ dest = s.ip
                   \/ s.via = NoIP /\ s.name /\ \E a \in Answers : dest \in Range(a)

\* xot-gateway dials this host at an address that isLocalIP can recognise: not
\* at one the entry names in its "port", where GetServer does not look.
DialsBack == /\ hops' > hops
             /\ Config[srv].via \notin Own
             /\ ips[tried'] # Alias

(***************************************************************************)
(* xot-gateway dials an address of a local interface only if its GetServer *)
(* has not seen that address (the resolution before the dial had another   *)
(* result, after a change of the DNS or a failure to reach it) or could    *)
(* not list the interfaces: it looks at all that it is going to dial, and  *)
(* not at the first address only.  Excepted are entries that name this     *)
(* host in their "port", because AddrSpec.DialAddr puts that in place of   *)
(* the addresses GetServer has looked at, and addresses of this host that  *)
(* are on no interface.                                                    *)
(***************************************************************************)
SelfDialNeedsChange ==
    [][DialsBack => ips[tried'] \notin Range(seen) \/ "gateway" \in blind]_vars

(***************************************************************************)
(* With a DNS that keeps its answer a call is dialled back to the host it  *)
(* was sent from only if the process before xot-gateway could not list the *)
(* interfaces, however often the DNS fails to answer one process and not   *)
(* the other, and whenever the caches expire: a process that cannot        *)
(* resolve a server keeps the call on this host, except xot-gateway, which *)
(* gets calls only from processes that could.  Excepted are, as above,     *)
(* entries that name this host in their "port" and addresses of it that    *)
(* are on no interface: they bring a call back every time.                 *)
(***************************************************************************)
SteadyDNSNoLoop == [][changes = 0 /\ DialsBack => "relay" \in blind]_vars
=============================================================================
