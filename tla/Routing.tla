------------------------------- MODULE Routing -------------------------------
(***************************************************************************)
(* How an X.121 address leads to a server and to IP addresses: the server  *)
(* entries Reload keeps, the longest prefix of GetServer (src/config.go),  *)
(* and ResolveXotDestination (src/dns.go).                                 *)
(*                                                                         *)
(* An address is a sequence of digits.  A server entry says                *)
(*   prefix, plen  "prefix/plen"; NoPlen if the entry is not of that form; *)
(*   ip            the IP address, NoIP if there is none;                  *)
(*   name          whether there is a dns_name;                            *)
(*   need          how many digits the dns_pattern takes from the address, *)
(*                 NoPattern if there is none;                             *)
(*   via           the host of an explicit "host:port", NoIP if there is   *)
(*                 only a port.                                            *)
(* An IP address stands for its host.  Two kinds of address lead to this   *)
(* one: Here is an address of a local interface; Alias is one isLocalIP    *)
(* does not know, because it is on no interface (127.0.0.2, 0.0.0.0) or    *)
(* because net.ParseIP does not read it (a name in "ip", which Reload      *)
(* lets pass, or an address with a zone in an answer of the DNS).          *)
(***************************************************************************)
EXTENDS Integers, SequencesExt

NoPlen == -1
NoPattern == -1
NoIP == "none"
Here == "here"
Alias == "alias"
Own == {Here, Alias}

ServerEntry == [prefix : Seq(Nat), plen : Nat \union {NoPlen}, ip : STRING,
                name : BOOLEAN, need : Nat \union {NoPattern}, via : STRING]

\* The default pattern ^(...)(...) takes six digits.
DefaultNeed == 6

\* What Reload keeps: an IP or a DNS name, never both, and no pattern alone.
HasDNS(srv) == srv.name \/ srv.need # NoPattern
Usable(srv) == /\ (srv.ip # NoIP) # HasDNS(srv)
               /\ HasDNS(srv) => srv.name
WithDefaults(srv) ==
    IF HasDNS(srv) /\ srv.need = NoPattern
    THEN [srv EXCEPT !.need = DefaultNeed] ELSE srv
ValidServers(servers) ==
    FoldLeft(LAMBDA kept, srv : IF Usable(srv) THEN Append(kept, WithDefaults(srv)) ELSE kept,
             <<>>, servers)

\* GetServer looks at entries of the form prefix/len(prefix) only.
Matches(srv, addr) == /\ srv.plen = Len(srv.prefix)
                      /\ IsPrefix(srv.prefix, addr)

\* Mutant: the loop stops at the first match.
BestFirst(servers, addr) ==
    LET hits == {i \in DOMAIN servers : Matches(servers[i], addr)}
    IN  IF hits = {} THEN 0 ELSE CHOOSE i \in hits : \A j \in hits : i <= j

\* The loop of GetServer: the index of the entry chosen, 0 if there is none.
Best(servers, addr) ==
    FoldLeft(LAMBDA best, i :
                 IF /\ Matches(servers[i], addr)
                    /\ best = 0 \/ servers[i].plen > servers[best].plen
                 THEN i ELSE best,
             0, [i \in DOMAIN servers |-> i])

(***************************************************************************)
(* ResolveXotDestination: the answers possible, with what the DNS cache    *)
(* then holds for the name.  No addresses means an error, and no entry;    *)
(* answer is what the DNS says if it can be reached.                       *)
(***************************************************************************)
Resolutions(srv, addr, cached, answer) ==
    CASE srv.ip # NoIP        -> {[ips |-> <<srv.ip>>, cached |-> cached]}
      [] srv.ip = NoIP /\ Len(addr) < srv.need
                              -> {[ips |-> <<>>, cached |-> cached]}
      [] srv.ip = NoIP /\ Len(addr) >= srv.need /\ cached # <<>>
                              -> {[ips |-> cached, cached |-> cached]}
      [] OTHER                -> {[ips |-> a, cached |-> a] : a \in {<<>>, answer}}

(***************************************************************************)
(* isLocalIP lists the interfaces each time it is called, and takes an     *)
(* address for a remote one if it cannot.  A lookup is blind when that has *)
(* hidden an address of this host from it.                                 *)
(***************************************************************************)
Blindness(ips) == {b \in BOOLEAN : b => Here \in Range(ips)}

\* Mutant: only the first address is looked at.
LocalHead(ips, defaultLocal, blind) ==
    IF ips = <<>> THEN defaultLocal ELSE ~blind /\ Head(ips) = Here

\* The flag GetServer returns for the addresses of the server chosen.
Local(ips, defaultLocal, blind) ==
    IF ips = <<>> THEN defaultLocal ELSE ~blind /\ Here \in Range(ips)

\* AddrSpec.DialAddr: an explicit host in "port" replaces the address.
DialAddr(srv, ip) == IF srv.via = NoIP THEN ip ELSE srv.via
=============================================================================
