----------------------------- MODULE MCRouteSync -----------------------------
EXTENDS RouteSync

Srv(p, n, ip) == [prefix |-> p, plen |-> n, ip |-> ip, name |-> FALSE,
                  need |-> NoPattern, via |-> NoIP]
Dns(p, n, need) == [Srv(p, n, NoIP) EXCEPT !.name = TRUE, !.need = need]

MCGoroutine == Reader \union {Watcher}

\* A local exception to a remote prefix, and an entry whose route is that of
\* another prefix; and entries of every odd kind: a length that is wrong, a
\* name that need not resolve, which hides an address, no length, both an IP
\* and a DNS pattern.
MCServersOf == [c \in {"split", "odd"} |->
    CASE c = "split" -> <<Srv(<<1>>, 1, "away"), Srv(<<1, 2>>, 2, Here),
                          Srv(<<1, 3>>, 1, "away")>>
      [] c = "odd"   -> <<Srv(<<1, 2>>, 1, "away"), Dns(<<1>>, 1, 1), Srv(<<1>>, 1, "away"),
                          Srv(<<2>>, NoPlen, "away"),
                          [Srv(<<2>>, 1, "away") EXCEPT !.need = 1]>>]
=============================================================================
